---- MODULE Spec2Model ----
(***************************************************************************)
(* StageView stream supervision and fan-out engine (src-tauri/src/lib.rs). *)
(*                                                                         *)
(* The state is AppState (the shared maps keyed by camera id), the         *)
(* supervisor tasks spawned by start_streams / api_reload (stream_camera,  *)
(* try_stream_camera, process_fmp4_stream), the HTTP stream handlers of    *)
(* run_api_server and the command handlers.  A task spawned on the tokio   *)
(* runtime runs concurrently with every other task; between two lock       *)
(* acquisitions or event emissions of one task any other task may run, so  *)
(* each handler is a sequence of steps, one per lock section or emission.  *)
(* JoinHandle::abort only marks a task: its future (and every value the    *)
(* future owns) is dropped when the task is next at an await point.        *)
(***************************************************************************)
EXTENDS Integers, Sequences, FiniteSets, TLC

\* ---------------------------------------------------------------- bounds

Cams == {"a", "b"}

MaxTasks == 2            \* supervisor tasks ever spawned in the engine runs
MaxAttempt == 12         \* the reconnect counter is followed up to this value
MaxUnits == 2            \* init segments + fragments per camera, retry runs
RingUnits == 123         \* init segment + fragments, recent-fragment runs
MaxSubs == 1             \* HTTP stream requests, handoff runs
StreamUnits == 3         \* init segments + fragments, handoff runs
StreamAttempts == 2      \* the reconnect counter's bound, handoff runs
LagUnits == 63           \* init segment + fragments, slow-client runs
LagJoinBy == 2           \* units emitted before the slow client asks, at most
MaxCmds == 3             \* commands issued by front end and HTTP API, engine runs
CacheUnits == 2          \* init segments + fragments per camera, cache runs
ParserAttempts == 1      \* attempts of the supervisor, parser runs
MaxBoxes == 3            \* boxes the worker writes in one attempt, parser runs
MaxBigBoxes == 3         \* boxes the worker writes in one attempt, large-box runs
MaxFrameBoxes == 4       \* boxes the worker writes in one attempt, fragment runs
EarlyUnits == 3          \* init segments + fragments per camera, early-client runs
RestartAttempts == 2     \* the reconnect counter's bound, restart runs
RestartUnits == 2        \* init segments + fragments per camera, restart runs
MaxTrafChildren == 2     \* tfhd and trun boxes inside one traf, keyframe runs
TopicAttempts == 1       \* the reconnect counter's bound, topic runs
TopicUnits == 2          \* init segments + fragments per camera, topic runs
PoisonAttempts == 1      \* attempts per camera, poisoned-lock runs
PoisonUnits == 2         \* init segments + fragments per camera, poisoned-lock runs
MaxPoisoned == 1         \* locks that become poisoned in one run
IsoAttempts == 1         \* the reconnect counter's bound, two-camera runs
IsoUnits == 2            \* init segments + fragments per camera, two-camera runs

TaskIds == 1..MaxTasks

SubIds == 1..MaxSubs

\* ------------------------------------------------------ program constants

ChannelCapacity == 60    \* tokio::sync::broadcast::channel(60)
RecentCap == 120         \* while segments.len() > 120 { pop_front }
ErrorThreshold == 3      \* if attempt >= 3 { emit stream-error }

\* ----------------------------------------------------------------- state

VARIABLES
    config,              \* AppState.config.cameras, a sequence of camera ids
    disk_config,         \* the cameras of config.json on disk
    stream_tasks,        \* AppState.stream_tasks: camera id -> task
    cmd,                 \* the command handlers in progress
    reconnect_attempts,  \* AppState.reconnect_attempts: camera id -> count
    stream_health,       \* AppState.stream_health: camera id -> writing task
    frame_broadcasters,  \* AppState.frame_broadcasters: camera id -> channel
    init_segments,       \* AppState.init_segments: camera id -> init segment
    recent_segments,     \* AppState.recent_segments: camera id -> fragments
    task,                \* the supervisor tasks (stream_camera futures)
    sub,                 \* the HTTP stream handlers of run_api_server
    unit_seq,            \* camera id -> number of units produced so far
    emitted,             \* the event most recently given to app.emit
    streak,              \* task -> ended attempts in a row that never went online
    fails,               \* task -> of those, the last ones that ended in Err
    stopped,             \* stop_streams drained stream_tasks and nothing spawned since
    poisoned,            \* the shared maps whose Mutex is poisoned
    locks                \* who holds each Mutex, and where each thread is in
                         \* the lock sequence of its operation

engineVars == << config, disk_config, stream_tasks, cmd >>

ghostVars == << streak, fails, stopped, poisoned, locks >>

vars == << config, disk_config, stream_tasks, cmd, reconnect_attempts,
           stream_health, frame_broadcasters, init_segments, recent_segments,
           task, sub, unit_seq, emitted, streak, fails, stopped,
           poisoned, locks >>

\* The seven Mutexes of AppState.
Mutexes == {"config", "stream_tasks", "reconnect_attempts", "stream_health",
            "frame_broadcasters", "init_segments", "recent_segments"}

\* The threads that lock them: the window's command thread, the API server's
\* handler of one request, a supervisor task, its health task, and the HTTP
\* handler of one stream request.
Threads == {"ui", "api", "sup", "health", "http"}

\* No Mutex is held and no thread is inside an operation.  order collects the
\* pairs << a, b >> such that some thread has locked b while it held a.
NoLocks == [owner |-> [m \in Mutexes |-> ""],
            at |-> [th \in Threads |-> [op |-> "", i |-> 0]],
            order |-> {}]

\* if let Ok(mut guard) = state.m.lock() { update }: lock() is Err once the
\* Mutex is poisoned, and the update is skipped.
IfLockOk(m, updated, old) == IF m \in poisoned THEN old ELSE updated

\* ----------------------------------------------------- HashMap operations

EmptyMap == << >>

Put(m, k, v) == [x \in (DOMAIN m) \cup {k} |-> IF x = k THEN v ELSE m[x]]

\* A faulty removal, for comparison: the whole map is cleared.
RemoveAll(m, k) == EmptyMap

Remove(m, k) == [x \in (DOMAIN m) \ {k} |-> m[x]]

Has(m, k) == k \in DOMAIN m

\* ------------------------------------------------------------------ units

\* A unit is one Arc<Vec<u8>>: an init segment (ftyp||moov) or a fragment
\* (moof||mdat).  id is its place in the camera's production order, key whether
\* is_keyframe_fragment holds of it, init the id of the init segment its
\* attempt published before it (0 when none), boxes the types of the top-level
\* boxes its bytes are made of, in order.
NoUnit == [kind |-> "none", id |-> 0, key |-> FALSE, init |-> 0,
           boxes |-> << >>]

InitUnit(n) == [kind |-> "init", id |-> n, key |-> FALSE, init |-> n,
                boxes |-> << "ftyp", "moov" >>]

FragUnit(n, kf, i) == [kind |-> "frag", id |-> n, key |-> kf, init |-> i,
                       boxes |-> << "moof", "mdat" >>]

\* ------------------------------------------------------------------ boxes

\* while pending.len() >= 8: a box header is a 4-byte size and a 4-byte type
HeaderLen == 8

\* box_size > 50 * 1024 * 1024 is rejected
MaxBoxSize == 52428800

\* pending.len() > 5 * 1024 * 1024 clears the buffers
PendingCap == 5242880

\* let mut buf = vec![0u8; 131_072]
ReadBuf == 131072

\* A top-level box of the worker's output: its type, the value of its size
\* field, the bytes it occupies, what is_keyframe_fragment finds in it (moof
\* only) and what count_samples_in_moof returns for it (moof only).
Box(ty, sz, kf, n) ==
    [type |-> ty, size |-> sz, len |-> sz, key |-> kf, samples |-> n]

\* Eight bytes whose size field is below the header length.
BadBox == [type |-> "bad", size |-> 0, len |-> HeaderLen, key |-> FALSE,
           samples |-> 0]

\* Eight bytes whose size field is above the largest size accepted.
HugeBox == [type |-> "huge", size |-> MaxBoxSize + 1, len |-> HeaderLen,
            key |-> FALSE, samples |-> 0]

RECURSIVE Bytes(_)
\* Vec::len of a buffer holding the boxes bs
Bytes(bs) == IF bs = << >> THEN 0 ELSE Head(bs).len + Bytes(Tail(bs))

Types(bs) == [i \in 1..Len(bs) |-> bs[i].type]

RECURSIVE SumSeq(_)
SumSeq(q) == IF q = << >> THEN 0 ELSE Head(q) + SumSeq(Tail(q))

\* count_samples_in_moof of a moof whose trun boxes declare the sample counts
\* truns: total += sample_count for each trun, then total.max(1)
count_samples_in_moof(truns) ==
    IF SumSeq(truns) >= 1 THEN SumSeq(truns) ELSE 1

\* A moof box of sz bytes whose trun boxes declare the sample counts truns.
Moof(sz, kf, truns) == Box("moof", sz, kf, count_samples_in_moof(truns))

\* The locals of process_fmp4_stream.  stream is what the worker writes to its
\* stdout in this attempt, rd the bytes read from it so far; pending holds the
\* bytes lo..rd of the stream.  outs lists what the parser has made of the
\* boxes so far.
NoParser == [stream |-> << >>, rd |-> 0, lo |-> 0, init_buf |-> << >>,
             frag_buf |-> << >>, moof_start |-> 0, psc |-> 1, outs |-> << >>]

\* ------------------------------------------------------------------ tasks

\* offline records that the task has emitted camera-status "offline" since it
\* entered its current attempt; broadcast_sender that the sender cloned at the
\* start of process_fmp4_stream is Some.
NoTask == [cam |-> "", pc |-> "none", attempt |-> 0, aborted |-> FALSE,
           worker |-> FALSE, health |-> FALSE, htask |-> "none",
           hcancel |-> FALSE, init_sent |-> FALSE,
           frames |-> 0, backoff |-> 0, err |-> "", unit |-> NoUnit,
           px |-> NoParser, offline |-> FALSE,
           broadcast_sender |-> TRUE]

\* tauri::async_runtime::spawn(async move { stream_camera(..).await })
NewTask(c) == [NoTask EXCEPT !.cam = c, !.pc = "start"]

\* A task whose future has been dropped.
DeadTask(c) == [NoTask EXCEPT !.cam = c, !.pc = "dead", !.aborted = TRUE]

\* The attempt's values are dropped: the child is killed (kill_on_drop) and
\* the AbortOnDrop guards call abort on the health and stderr tasks.  A health
\* task waiting in interval.tick() is never polled again; one that is running
\* its loop body runs on to its next tick.
DropAttempt(r) ==
    [r EXCEPT !.worker = FALSE, !.health = FALSE, !.px = NoParser,
              !.htask = IF @ = "tick" THEN "none" ELSE @,
              !.hcancel = r.htask \in {"insert", "emit"}]

NoEvent == [name |-> "", cam |-> "", status |-> "", attempt |-> 0]

Event(n, c, s, a) == [name |-> n, cam |-> c, status |-> s, attempt |-> a]

\* An HTTP stream handler: rx_next is the position its broadcast Receiver reads
\* next, item the unit it is about to write, pending the cached fragments it
\* has still to write, written what it has written to the socket after the
\* response headers.  from_cache counts the written units that came from the
\* two caches, lagged the Lagged results its Receiver has reported,
\* after_lag says that the latest result was Lagged, and joined counts the
\* units the camera's supervisors had passed to send when it subscribed.
NoSub == [cam |-> "", pc |-> "idle", rx_next |-> 0, item |-> NoUnit,
          pending |-> << >>, written |-> << >>, from_cache |-> 0, lagged |-> 0,
          after_lag |-> FALSE, end |-> "", joined |-> 0]

\* Synchronous commands (start_streams, stop_streams, save_config) run one at a
\* time on the main thread; api_reload is async and runs beside them.
Handlers == {"ui", "api"}

\* A command handler: lock says it holds the stream_tasks mutex, cams is its
\* local configuration, ids the camera_ids it has still to announce.  had,
\* killed, offl and second record, for stop_streams, the keys of stream_tasks
\* at the call, the tasks it aborted, the camera ids it has emitted offline
\* for, and whether the call came after another stop_streams with no spawn in
\* between.
NoCmd == [op |-> "", pc |-> "idle", lock |-> FALSE, cams |-> << >>, ids |-> {},
          had |-> {}, killed |-> {}, offl |-> << >>, second |-> FALSE, n |-> 0]

\* Handler h takes up command op, its n-th.
Begin(h, op) == [NoCmd EXCEPT !.op = op, !.n = cmd[h].n + 1]

\* A further command may be issued.
MayIssue == cmd["ui"].n + cmd["api"].n < MaxCmds

\* Handler h returns.
Return(h) == [NoCmd EXCEPT !.n = cmd[h].n]

\* The pcs at which the future is suspended in an await.
AwaitPcs == {"start", "read", "sleep"}

\* ------------------------------------------------------------- the channel

\* tokio::sync::broadcast::channel::<Arc<Vec<u8>>>(60).0
NewChannel == [tail |-> 0, buf |-> << >>, rx |-> 0]

LastN(s, n) == IF Len(s) <= n THEN s ELSE SubSeq(s, Len(s) - n + 1, Len(s))

\* A channel that retains what is sent to it while it has no receiver.
ChanSendAlways(ch, u) ==
    [ch EXCEPT !.tail = @ + 1, !.buf = LastN(Append(@, u), ChannelCapacity)]

\* Sender::send: refused when there is no receiver, otherwise the value takes
\* the next position and the oldest retained value is overwritten.
ChanSend(ch, u) ==
    IF ch.rx = 0 THEN ch
    ELSE [ch EXCEPT !.tail = @ + 1, !.buf = LastN(Append(@, u), ChannelCapacity)]

\* --------------------------------------------------------- calculate_backoff

Min(x, y) == IF x <= y THEN x ELSE y

\* A faulty schedule, for comparison: the tenth attempt already waits 300 s.
calculate_backoff_shifted(attempt) ==
    IF attempt >= 1 /\ attempt <= 5 THEN 2 ^ Min(attempt - 1, 31)
    ELSE IF attempt >= 6 /\ attempt < 10 THEN 60
    ELSE 300

calculate_backoff(attempt) ==
    IF attempt >= 1 /\ attempt <= 5 THEN 2 ^ Min(attempt - 1, 31)
    ELSE IF attempt >= 6 /\ attempt <= 10 THEN 60
    ELSE 300

\* ------------------------------------------------------------ stream_camera

\* loop head: lock reconnect_attempts; *entry(id).or_insert(0) += 1
SupEnter(t, maxAttempt) ==
    /\ task[t].pc \in {"start", "sleep"}
    /\ ~task[t].aborted
    /\ LET c == task[t].cam
           count == (IF Has(reconnect_attempts, c) THEN reconnect_attempts[c] ELSE 0) + 1
       IN /\ count <= maxAttempt
          /\ streak[t] < maxAttempt
          /\ reconnect_attempts' = Put(reconnect_attempts, c, count)
          /\ task' = [task EXCEPT ![t].pc = "connecting", ![t].attempt = count,
                                  ![t].init_sent = FALSE, ![t].frames = 0,
                                  ![t].err = "", ![t].backoff = 0,
                                  ![t].offline = FALSE]
    /\ UNCHANGED << engineVars, stream_health, frame_broadcasters, init_segments,
                    recent_segments, sub, unit_seq, emitted, ghostVars >>

\* app.emit("camera-status", "connecting")
SupEmitConnecting(t) ==
    /\ task[t].pc = "connecting"
    /\ emitted' = Event("camera-status", task[t].cam, "connecting", task[t].attempt)
    /\ task' = [task EXCEPT ![t].pc = "mkchan"]
    /\ UNCHANGED << engineVars, reconnect_attempts, stream_health,
                    frame_broadcasters, init_segments, recent_segments, sub,
                    unit_seq, ghostVars >>

\* A supervisor that installs a channel of its own whether or not the camera
\* has one: broadcasters.insert(camera_id, channel(60).0)
TryReplaceBroadcaster(t) ==
    /\ task[t].pc = "mkchan"
    /\ frame_broadcasters' = Put(frame_broadcasters, task[t].cam, NewChannel)
    /\ task' = [task EXCEPT ![t].pc = "spawn"]
    /\ UNCHANGED << engineVars, reconnect_attempts, stream_health, init_segments,
                    recent_segments, sub, unit_seq, emitted, ghostVars >>

\* try_stream_camera: broadcasters.entry(id).or_insert_with(channel(60))
TryCreateBroadcaster(t) ==
    /\ task[t].pc = "mkchan" /\ "frame_broadcasters" \notin poisoned
    /\ frame_broadcasters' =
          IF Has(frame_broadcasters, task[t].cam) THEN frame_broadcasters
          ELSE Put(frame_broadcasters, task[t].cam, NewChannel)
    /\ task' = [task EXCEPT ![t].pc = "spawn"]
    /\ UNCHANGED << engineVars, reconnect_attempts, stream_health, init_segments,
                    recent_segments, sub, unit_seq, emitted, ghostVars >>

\* cmd.spawn() fails: emit stream-error, return Err
TrySpawnFail(t) ==
    /\ task[t].pc = "spawn"
    /\ emitted' = Event("stream-error", task[t].cam, "FFmpeg failed", task[t].attempt)
    /\ task' = [task EXCEPT ![t].pc = "after_err", ![t].err = "FFmpeg failed"]
    /\ UNCHANGED << engineVars, reconnect_attempts, stream_health,
                    frame_broadcasters, init_segments, recent_segments, sub,
                    unit_seq, ghostVars >>

\* cmd.spawn() succeeds: the child exists until the attempt's future drops it
\* (kill_on_drop).
TrySpawnOk(t) ==
    /\ task[t].pc = "spawn"
    /\ task' = [task EXCEPT ![t].pc = "health_init", ![t].worker = TRUE]
    /\ UNCHANGED << engineVars, reconnect_attempts, stream_health,
                    frame_broadcasters, init_segments, recent_segments, sub,
                    unit_seq, emitted, ghostVars >>

\* health_map.insert(id, StreamHealth{..}); the health task is spawned behind
\* its AbortOnDrop guard; process_fmp4_stream clones the broadcast sender.
TryInitHealth(t) ==
    /\ task[t].pc = "health_init"
    /\ stream_health' = IfLockOk("stream_health",
                                 Put(stream_health, task[t].cam, t), stream_health)
    /\ task' = [task EXCEPT ![t].pc = "read", ![t].health = TRUE,
                            ![t].htask = "tick", ![t].hcancel = FALSE,
                            ![t].broadcast_sender =
                                "frame_broadcasters" \notin poisoned]
    /\ UNCHANGED << engineVars, reconnect_attempts, frame_broadcasters,
                    init_segments, recent_segments, sub, unit_seq, emitted,
                    ghostVars >>

\* ------------------------------------------------------ process_fmp4_stream

\* A read delivers a moov box and no init segment was sent in this attempt:
\* init_segment_sent = true, init_segment = Arc::new(ftyp||moov).
ReadMoov(t, maxUnits) ==
    /\ task[t].pc = "read"
    /\ ~task[t].aborted
    /\ ~task[t].init_sent
    /\ unit_seq[task[t].cam] < maxUnits
    /\ LET c == task[t].cam
           n == unit_seq[c] + 1
       IN /\ unit_seq' = [unit_seq EXCEPT ![c] = n]
          /\ task' = [task EXCEPT ![t].pc = "init_cache", ![t].init_sent = TRUE,
                                  ![t].unit = InitUnit(n)]
    /\ UNCHANGED << engineVars, reconnect_attempts, stream_health,
                    frame_broadcasters, init_segments, recent_segments, sub,
                    emitted, ghostVars >>

\* Where the task goes on after a publication: to the next box of the while
\* loop when the bytes of the worker are modelled, to the next read otherwise.
Resume(r) == IF r.px.stream = << >> THEN "read" ELSE "parse"

\* cache.insert(camera_id, init_segment.clone())
PublishInitCache(t) ==
    /\ task[t].pc = "init_cache"
    /\ init_segments' = IfLockOk("init_segments",
                                 Put(init_segments, task[t].cam, task[t].unit),
                                 init_segments)
    /\ task' = [task EXCEPT ![t].pc = "init_send"]
    /\ UNCHANGED << engineVars, reconnect_attempts, stream_health,
                    frame_broadcasters, recent_segments, sub, unit_seq, emitted,
                    ghostVars >>

\* let _ = sender.send(init_segment)
PublishInitSend(t) ==
    /\ task[t].pc = "init_send"
    /\ frame_broadcasters' =
          IF task[t].broadcast_sender
          THEN [frame_broadcasters EXCEPT ![task[t].cam] = ChanSend(@, task[t].unit)]
          ELSE frame_broadcasters
    /\ task' = [task EXCEPT ![t].pc = "init_reset"]
    /\ UNCHANGED << engineVars, reconnect_attempts, stream_health, init_segments,
                    recent_segments, sub, unit_seq, emitted, ghostVars >>

\* attempts.insert(camera_id, 0)
PublishInitReset(t) ==
    /\ task[t].pc = "init_reset"
    /\ reconnect_attempts' = IfLockOk("reconnect_attempts",
                                      Put(reconnect_attempts, task[t].cam, 0),
                                      reconnect_attempts)
    /\ task' = [task EXCEPT ![t].pc = "init_online"]
    /\ UNCHANGED << engineVars, stream_health, frame_broadcasters, init_segments,
                    recent_segments, sub, unit_seq, emitted, ghostVars >>

\* app.emit("camera-status", "online")
PublishInitOnline(t) ==
    /\ task[t].pc = "init_online"
    /\ emitted' = Event("camera-status", task[t].cam, "online", task[t].attempt)
    /\ task' = [task EXCEPT ![t].pc = Resume(task[t]), ![t].unit = NoUnit]
    /\ UNCHANGED << engineVars, reconnect_attempts, stream_health,
                    frame_broadcasters, init_segments, recent_segments, sub,
                    unit_seq, ghostVars >>

\* A read completes a moof+mdat pair: frame_count += pending_sample_count,
\* is_keyframe = is_keyframe_fragment(..), fragment_arc = Arc::new(take(buffer)).
ReadFragment(t, kf, w) ==
    /\ task[t].pc = "read"
    /\ ~task[t].aborted
    /\ unit_seq[task[t].cam] < w.maxUnits
    /\ w.wellFormed => (task[t].init_sent /\ (task[t].frames = 0 => kf))
    /\ LET c == task[t].cam
           n == unit_seq[c] + 1
           i == IF task[t].init_sent /\ Has(init_segments, c)
                THEN init_segments[c].id ELSE 0
       IN /\ unit_seq' = [unit_seq EXCEPT ![c] = n]
          /\ task' = [task EXCEPT ![t].pc = "frag_cache", ![t].frames = @ + 1,
                                  ![t].unit = FragUnit(n, kf, i)]
    /\ UNCHANGED << engineVars, reconnect_attempts, stream_health,
                    frame_broadcasters, init_segments, recent_segments, sub,
                    emitted, ghostVars >>

\* A cap that removes the newest entries: while segments.len() > 120
\* { segments.pop_back(); }
TrimBack(q) == SubSeq(q, 1, Min(Len(q), RecentCap))

\* while segments.len() > 120 { segments.pop_front(); }
TrimFront(q) == LastN(q, RecentCap)

\* if is_keyframe { segments.clear(); } segments.push_back(fragment)
PushRecent(q, u) == TrimFront(Append(IF u.key THEN << >> ELSE q, u))

\* recent.entry(camera_id).or_insert_with(VecDeque::new) ... push, trim
CacheFragment(t) ==
    /\ task[t].pc = "frag_cache"
    /\ LET c == task[t].cam
           q == IF Has(recent_segments, c) THEN recent_segments[c] ELSE << >>
       IN recent_segments' =
             IfLockOk("recent_segments",
                      Put(recent_segments, c, PushRecent(q, task[t].unit)),
                      recent_segments)
    /\ task' = [task EXCEPT ![t].pc = "frag_send"]
    /\ UNCHANGED << engineVars, reconnect_attempts, stream_health,
                    frame_broadcasters, init_segments, sub, unit_seq, emitted,
                    ghostVars >>

\* if sender.receiver_count() > 0 { let _ = sender.send(fragment_arc); }
BroadcastFragment(t) ==
    /\ task[t].pc = "frag_send"
    /\ frame_broadcasters' =
          IF task[t].broadcast_sender
          THEN [frame_broadcasters EXCEPT ![task[t].cam] = ChanSend(@, task[t].unit)]
          ELSE frame_broadcasters
    /\ task' = [task EXCEPT ![t].pc = Resume(task[t]), ![t].unit = NoUnit]
    /\ UNCHANGED << engineVars, reconnect_attempts, stream_health, init_segments,
                    recent_segments, sub, unit_seq, emitted, ghostVars >>

\* Ok(Ok(0)) => break: FFmpeg closed its stdout
ReadEof(t) ==
    /\ task[t].pc = "read"
    /\ ~task[t].aborted
    /\ task' = [task EXCEPT ![t].pc = "ok_health"]
    /\ UNCHANGED << engineVars, reconnect_attempts, stream_health,
                    frame_broadcasters, init_segments, recent_segments, sub,
                    unit_seq, emitted, ghostVars >>

\* Ok(Err(e)) => return Err: the ? in try_stream_camera returns, which drops
\* the child (kill_on_drop) and the two AbortOnDrop guards.
ReadError(t) ==
    /\ task[t].pc = "read"
    /\ ~task[t].aborted
    /\ task' = [task EXCEPT ![t] = [DropAttempt(task[t]) EXCEPT
                                        !.pc = "after_err", !.err = "read error"]]
    /\ UNCHANGED << engineVars, reconnect_attempts, stream_health,
                    frame_broadcasters, init_segments, recent_segments, sub,
                    unit_seq, emitted, ghostVars >>

\* Err(_elapsed) => return Err("Stream read timeout"): no byte for 30 s
ReadTimeout(t) ==
    /\ task[t].pc = "read"
    /\ ~task[t].aborted
    /\ task' = [task EXCEPT ![t] = [DropAttempt(task[t]) EXCEPT
                                        !.pc = "after_err", !.err = "read timeout"]]
    /\ UNCHANGED << engineVars, reconnect_attempts, stream_health,
                    frame_broadcasters, init_segments, recent_segments, sub,
                    unit_seq, emitted, ghostVars >>

\* ------------------------------------------- try_stream_camera, after Ok

\* health_map.remove(camera_id)
TryRemoveHealth(t) ==
    /\ task[t].pc = "ok_health"
    /\ stream_health' = IfLockOk("stream_health",
                                 Remove(stream_health, task[t].cam), stream_health)
    /\ task' = [task EXCEPT ![t].pc = "ok_offline"]
    /\ UNCHANGED << engineVars, reconnect_attempts, frame_broadcasters,
                    init_segments, recent_segments, sub, unit_seq, emitted,
                    ghostVars >>

\* if total_frames == 0 { emit "offline" }; Ok(()): the child and the guards drop
TryReturnOk(t) ==
    /\ task[t].pc = "ok_offline"
    /\ emitted' = IF task[t].frames = 0
                  THEN Event("camera-status", task[t].cam, "offline", task[t].attempt)
                  ELSE emitted
    /\ task' = [task EXCEPT ![t] = [DropAttempt(task[t]) EXCEPT
                                        !.pc = "ok_reset",
                                        !.offline = task[t].frames = 0]]
    /\ UNCHANGED << engineVars, reconnect_attempts, stream_health,
                    frame_broadcasters, init_segments, recent_segments, sub,
                    unit_seq, ghostVars >>

\* ------------------------------------------ stream_camera, after the attempt

\* Ok(()) => attempts.insert(camera_id, 0)
SupResetOnOk(t) ==
    /\ task[t].pc = "ok_reset"
    /\ reconnect_attempts' = IfLockOk("reconnect_attempts",
                                      Put(reconnect_attempts, task[t].cam, 0),
                                      reconnect_attempts)
    /\ task' = [task EXCEPT ![t].pc = "reconnecting"]
    /\ UNCHANGED << engineVars, stream_health, frame_broadcasters, init_segments,
                    recent_segments, sub, unit_seq, emitted, ghostVars >>

\* The counter of the task's camera as it is now.
attempt_reread(t) ==
    IF Has(reconnect_attempts, task[t].cam) THEN reconnect_attempts[task[t].cam]
    ELSE 0

\* let attempt = { .. *count }: the local of the loop body, set at its head
attempt_local(t) == task[t].attempt

\* Err(e) => if attempt >= 3 { emit stream-error }
SupOnErr(t) ==
    /\ task[t].pc = "after_err"
    /\ emitted' = IF attempt_local(t) >= ErrorThreshold
                  THEN Event("stream-error", task[t].cam, task[t].err, attempt_local(t))
                  ELSE emitted
    /\ task' = [task EXCEPT ![t].pc = "reconnecting"]
    /\ UNCHANGED << engineVars, reconnect_attempts, stream_health,
                    frame_broadcasters, init_segments, recent_segments, sub,
                    unit_seq, ghostVars >>

\* status_msg: "reconnecting (attempt n)" if attempt <= 10, else
\* "reconnecting (Nm wait)"
StatusMsg(attempt) ==
    IF attempt <= 10 THEN "reconnecting (attempt n)" ELSE "reconnecting (Nm wait)"

\* backoff = calculate_backoff(attempt); emit status_msg; sleep(backoff)
SupEmitReconnecting(t) ==
    /\ task[t].pc = "reconnecting"
    /\ emitted' = Event("camera-status", task[t].cam, StatusMsg(attempt_local(t)),
                        attempt_local(t))
    /\ task' = [task EXCEPT ![t].pc = "sleep",
                            ![t].backoff = calculate_backoff(attempt_local(t))]
    /\ streak' = [streak EXCEPT ![t] = IF task[t].init_sent THEN 0 ELSE @ + 1]
    /\ fails' = [fails EXCEPT ![t] = IF task[t].err # "" /\ ~task[t].init_sent
                                     THEN @ + 1 ELSE 0]
    /\ UNCHANGED << engineVars, reconnect_attempts, stream_health,
                    frame_broadcasters, init_segments, recent_segments, sub,
                    unit_seq, stopped, poisoned, locks >>

\* The runtime drops the future of an aborted task at an await (an aborted
\* task is not polled again): the child is killed (kill_on_drop) and the
\* AbortOnDrop guards abort the health and stderr tasks.
DropFuture(t) ==
    /\ task[t].aborted
    /\ task[t].pc \in AwaitPcs
    /\ task' = [task EXCEPT ![t] =
                    [DeadTask(task[t].cam) EXCEPT
                        !.htask = DropAttempt(task[t]).htask,
                        !.hcancel = DropAttempt(task[t]).hcancel]]
    /\ UNCHANGED << engineVars, reconnect_attempts, stream_health,
                    frame_broadcasters, init_segments, recent_segments, sub,
                    unit_seq, emitted, ghostVars >>

\* ------------------------------------- try_stream_camera, the health task

\* interval.tick().await completes (every 2 s)
HealthTick(t) ==
    /\ task[t].htask = "tick"
    /\ ~task[t].hcancel
    /\ task' = [task EXCEPT ![t].htask = "insert"]
    /\ UNCHANGED << engineVars, reconnect_attempts, stream_health,
                    frame_broadcasters, init_segments, recent_segments, sub,
                    unit_seq, emitted, ghostVars >>

\* health_map.insert(health_camera_id, health)
HealthInsert(t) ==
    /\ task[t].htask = "insert"
    /\ stream_health' = IfLockOk("stream_health",
                                 Put(stream_health, task[t].cam, t), stream_health)
    /\ task' = [task EXCEPT ![t].htask = "emit"]
    /\ UNCHANGED << engineVars, reconnect_attempts, frame_broadcasters,
                    init_segments, recent_segments, sub, unit_seq, emitted,
                    ghostVars >>

\* health_app.emit("stream-health", ..); back to interval.tick().await, where
\* a cancelled task ends
HealthEmit(t) ==
    /\ task[t].htask = "emit"
    /\ emitted' = Event("stream-health", task[t].cam, "", task[t].attempt)
    /\ task' = [task EXCEPT ![t].htask = IF task[t].hcancel THEN "none" ELSE "tick",
                            ![t].hcancel = FALSE]
    /\ UNCHANGED << engineVars, reconnect_attempts, stream_health,
                    frame_broadcasters, init_segments, recent_segments, sub,
                    unit_seq, ghostVars >>

\* One step of the health task of supervisor task t.
HealthTask(t) == HealthTick(t) \/ HealthInsert(t) \/ HealthEmit(t)

\* ---------------------------------------------------------------- parser

\* The byte of the buffer bs at which its i-th box starts.
StartOf(bs, i) == Bytes(SubSeq(bs, 1, i - 1))

\* What the eight bytes at offset off of bs read as: the header of the box that
\* starts there, and otherwise bytes of a payload or of the middle of a
\* header, which do not read as a size the parser accepts.
BoxAt(bs, off) ==
    IF \E i \in 1..Len(bs) : StartOf(bs, i) = off
    THEN bs[CHOOSE i \in 1..Len(bs) : StartOf(bs, i) = off]
    ELSE BadBox

\* A recovery that clears pending and keeps the partial fragment.
ResetPending(p) == [p EXCEPT !.lo = p.rd]

\* pending.clear(); fragment_buffer.clear()
ResetBuffers(p) == [p EXCEPT !.lo = p.rd, !.frag_buf = << >>]

\* box_size < 8 || box_size > 50 * 1024 * 1024
InvalidSize(b) == b.size < HeaderLen \/ b.size > MaxBoxSize

\* while pending.len() >= 8 goes on to handle a box: its size is invalid, or
\* the whole box is in pending.
CanParse(p) ==
    /\ p.rd - p.lo >= HeaderLen
    /\ \/ InvalidSize(BoxAt(p.stream, p.lo))
       \/ p.rd - p.lo >= BoxAt(p.stream, p.lo).size

\* is_keyframe_fragment(&fragment_buffer[moof_start..]): it looks for a traf
\* box behind the first eight bytes of the slice.
is_keyframe_fragment(buf, ms) ==
    BoxAt(buf, ms).type = "moof" /\ BoxAt(buf, ms).key

\* A value of init_segment_sent that never becomes true.
init_segment_unsent(r) == FALSE

\* let mut init_segment_sent = false; ... init_segment_sent = true
init_segment_sent(r) == r.init_sent

\* One pass of the while loop over the box at the head of pending: the new
\* locals, and what the pass does besides (act), with the boxes of the unit it
\* makes, the keyframe flag and the frames it counts.
Parse(p, sent) ==
    LET b == BoxAt(p.stream, p.lo)
        q == [p EXCEPT !.lo = @ + b.size]
        none == [px |-> p, act |-> "none", boxes |-> << >>, key |-> FALSE,
                 frames |-> 0]
    IN IF InvalidSize(b)
       THEN [none EXCEPT !.px = ResetBuffers(p)]
       ELSE CASE b.type \in {"ftyp", "moov"} ->
                   LET acc == Append(p.init_buf, b)
                       pub == b.type = "moov" /\ ~sent
                   IN [none EXCEPT
                         !.px = [q EXCEPT !.init_buf = acc,
                                          !.outs = IF pub
                                                   THEN Append(@, [kind |-> "init", boxes |-> Types(acc)])
                                                   ELSE @],
                         !.act = IF pub THEN "init" ELSE "none",
                         !.boxes = Types(acc)]
              [] b.type = "moof" ->
                   [none EXCEPT
                      !.px = [q EXCEPT !.moof_start = Bytes(p.frag_buf),
                                       !.frag_buf = Append(@, b),
                                       !.psc = b.samples]]
              [] b.type = "mdat" ->
                   LET buf == Append(p.frag_buf, b)
                   IN IF p.moof_start > Bytes(buf)
                      THEN [none EXCEPT !.px = [q EXCEPT !.frag_buf = buf],
                                        !.act = "panic", !.frames = p.psc]
                      ELSE [none EXCEPT
                              !.px = [q EXCEPT !.frag_buf = << >>,
                                               !.outs = Append(@, [kind |-> "frag", boxes |-> Types(buf)])],
                              !.act = "frag", !.boxes = Types(buf),
                              !.key = is_keyframe_fragment(buf, p.moof_start),
                              !.frames = p.psc]
              [] OTHER ->
                   [none EXCEPT
                      !.px = [q EXCEPT !.outs = Append(@, [kind |-> "drop", boxes |-> << b.type >>])]]

\* Command::spawn succeeds, and the worker will write one of `streams`.
TrySpawnStream(t, streams) ==
    /\ task[t].pc = "spawn"
    /\ \E bs \in streams :
          task' = [task EXCEPT ![t].pc = "health_init", ![t].worker = TRUE,
                               ![t].px = [NoParser EXCEPT !.stream = bs]]
    /\ UNCHANGED << engineVars, reconnect_attempts, stream_health,
                    frame_broadcasters, init_segments, recent_segments, sub,
                    unit_seq, emitted, ghostVars >>

\* The bytes from the stream's byte rd to the end of the box that byte is in.
ToBoxEnd(bs, rd) ==
    {StartOf(bs, i) + bs[i].len - rd :
        i \in {j \in 1..Len(bs) : StartOf(bs, j) <= rd /\ rd < StartOf(bs, j) + bs[j].len}}

\* Ok(Ok(n)) => n; pending.extend_from_slice(&buf[..n]): a read returns some
\* of the bytes the worker has yet to write, up to the buffer's size: the
\* rest of the box the worker is writing, or one of the numbers ns.
ReadChunk(t, ns) ==
    /\ task[t].pc = "read"
    /\ ~task[t].aborted
    /\ \E n \in ns \cup ToBoxEnd(task[t].px.stream, task[t].px.rd) :
          /\ n >= 1
          /\ n <= Min(ReadBuf, Bytes(task[t].px.stream) - task[t].px.rd)
          /\ task' = [task EXCEPT ![t].pc = "parse", ![t].px.rd = @ + n]
    /\ UNCHANGED << engineVars, reconnect_attempts, stream_health,
                    frame_broadcasters, init_segments, recent_segments, sub,
                    unit_seq, emitted, ghostVars >>

\* One pass of the while loop.  A slice that starts behind the end of
\* fragment_buffer panics: the task ends and its values are dropped.
ParseBox(t) ==
    /\ task[t].pc = "parse"
    /\ CanParse(task[t].px)
    /\ LET c == task[t].cam
           r == Parse(task[t].px, init_segment_sent(task[t]))
           n == unit_seq[c] + 1
           i == IF task[t].init_sent /\ Has(init_segments, c)
                THEN init_segments[c].id ELSE 0
       IN CASE r.act = "init" ->
                 /\ unit_seq' = [unit_seq EXCEPT ![c] = n]
                 /\ task' = [task EXCEPT
                               ![t].px = r.px, ![t].pc = "init_cache",
                               ![t].init_sent = TRUE,
                               ![t].unit = [InitUnit(n) EXCEPT !.boxes = r.boxes]]
            [] r.act = "frag" ->
                 /\ unit_seq' = [unit_seq EXCEPT ![c] = n]
                 /\ task' = [task EXCEPT
                               ![t].px = r.px, ![t].pc = "frag_cache",
                               ![t].frames = @ + r.frames,
                               ![t].unit = [FragUnit(n, r.key, i) EXCEPT !.boxes = r.boxes]]
            [] r.act = "panic" ->
                 /\ unit_seq' = unit_seq
                 /\ task' = [task EXCEPT
                               ![t] = [DropAttempt(@) EXCEPT
                                         !.pc = "panicked",
                                         !.frames = @ + r.frames]]
            [] OTHER ->
                 /\ unit_seq' = unit_seq
                 /\ task' = [task EXCEPT ![t].px = r.px]
    /\ UNCHANGED << engineVars, reconnect_attempts, stream_health,
                    frame_broadcasters, init_segments, recent_segments, sub,
                    emitted, ghostVars >>

\* The while loop ends; if pending.len() > 5 * 1024 * 1024 both buffers are
\* cleared; the loop goes back to the read.
EndParse(t) ==
    /\ task[t].pc = "parse"
    /\ ~CanParse(task[t].px)
    /\ task' = [task EXCEPT
                  ![t].pc = "read",
                  ![t].px = IF @.rd - @.lo > PendingCap
                            THEN ResetBuffers(@) ELSE @]
    /\ UNCHANGED << engineVars, reconnect_attempts, stream_health,
                    frame_broadcasters, init_segments, recent_segments, sub,
                    unit_seq, emitted, ghostVars >>

\* What the worker of a run may output: w.maxAttempt and w.maxUnits bound the
\* run, w.keys are the keyframe flags its fragments may carry, and w.wellFormed
\* says it writes what FFmpeg's fragmenting muxer writes: the moov before any
\* fragment, and a keyframed first fragment.
WorkerProfile(maxAttempt, maxUnits, keys, wellFormed) ==
    [maxAttempt |-> maxAttempt, maxUnits |-> maxUnits, keys |-> keys,
     wellFormed |-> wellFormed]

\* One step of supervisor task t from the head of its loop to its worker.
Connecting(t, w) ==
    \/ SupEnter(t, w.maxAttempt)
    \/ SupEmitConnecting(t)
    \/ TryCreateBroadcaster(t)
    \/ TrySpawnOk(t)
    \/ TryInitHealth(t)

\* One step of supervisor task t in an attempt that goes on.
Streaming(t, w) ==
    \/ Connecting(t, w)
    \/ ReadMoov(t, w.maxUnits)
    \/ PublishInitCache(t)
    \/ PublishInitSend(t)
    \/ PublishInitReset(t)
    \/ PublishInitOnline(t)
    \/ \E kf \in w.keys : ReadFragment(t, kf, w)
    \/ CacheFragment(t)
    \/ BroadcastFragment(t)

\* One step of supervisor task t that ends its attempt, or follows its end.
Ending(t) ==
    \/ TrySpawnFail(t)
    \/ ReadEof(t)
    \/ ReadError(t)
    \/ ReadTimeout(t)
    \/ TryRemoveHealth(t)
    \/ TryReturnOk(t)
    \/ SupResetOnOk(t)
    \/ SupOnErr(t)
    \/ SupEmitReconnecting(t)

Supervisor(t, w) == Streaming(t, w) \/ Ending(t)

\* ------------------------------------- run_api_server, /camera/{id}/stream

\* Receiver::recv on a channel with this tail and buffer, for a receiver at
\* position n: the oldest retained value is at position tail - Len(buf).
Oldest(ch) == ch.tail - Len(ch.buf)

RecvLagged(ch, n) == n < Oldest(ch)

RecvReady(ch, n) == n < ch.tail

RecvValue(ch, n) == ch.buf[n - Oldest(ch) + 1]

\* The units of camera c that a supervisor has produced and has passed to
\* sender.send.
Sent(c) ==
    unit_seq[c] - Cardinality({t \in TaskIds :
                                 /\ task[t].cam = c
                                 /\ task[t].pc \in {"init_cache", "init_send",
                                                    "frag_cache", "frag_send"}})

\* broadcasters.entry(id).or_insert_with(channel(60)); sender.subscribe()
HttpSubscribe(s, c) ==
    /\ sub[s].pc = "idle"
    /\ LET ch == IF Has(frame_broadcasters, c) THEN frame_broadcasters[c]
                 ELSE NewChannel
       IN /\ frame_broadcasters' = Put(frame_broadcasters, c, [ch EXCEPT !.rx = @ + 1])
          /\ sub' = [sub EXCEPT ![s].cam = c, ![s].pc = "headers",
                                ![s].rx_next = ch.tail, ![s].joined = Sent(c)]
    /\ UNCHANGED << engineVars, reconnect_attempts, stream_health, init_segments,
                    recent_segments, task, unit_seq, emitted, ghostVars >>

\* stream.write_all(headers) succeeds
HttpWriteHeaders(s) ==
    /\ sub[s].pc = "headers"
    /\ sub' = [sub EXCEPT ![s].pc = "snap_init"]
    /\ UNCHANGED << engineVars, reconnect_attempts, stream_health,
                    frame_broadcasters, init_segments, recent_segments, task,
                    unit_seq, emitted, ghostVars >>

\* init_segments.lock().ok().and_then(|cache| cache.get(&camera_id).cloned())
HttpSnapshotInit(s) ==
    /\ sub[s].pc = "snap_init"
    /\ sub' = IF Has(init_segments, sub[s].cam)
              THEN [sub EXCEPT ![s].pc = "write_init",
                               ![s].item = init_segments[sub[s].cam]]
              ELSE [sub EXCEPT ![s].pc = "snap_recent"]
    /\ UNCHANGED << engineVars, reconnect_attempts, stream_health,
                    frame_broadcasters, init_segments, recent_segments, task,
                    unit_seq, emitted, ghostVars >>

\* stream.write_all(&init_segment) succeeds
HttpWriteInit(s) ==
    /\ sub[s].pc = "write_init"
    /\ sub' = [sub EXCEPT ![s].pc = "snap_recent", ![s].item = NoUnit,
                          ![s].written = Append(@, sub[s].item),
                          ![s].from_cache = @ + 1]
    /\ UNCHANGED << engineVars, reconnect_attempts, stream_health,
                    frame_broadcasters, init_segments, recent_segments, task,
                    unit_seq, emitted, ghostVars >>

\* cached_fragments = cache.get(&camera_id).map(|q| q.iter().cloned().collect())
HttpSnapshotRecent(s) ==
    /\ sub[s].pc = "snap_recent"
    /\ LET q == IF Has(recent_segments, sub[s].cam)
                THEN recent_segments[sub[s].cam] ELSE << >>
       IN sub' = [sub EXCEPT ![s].pending = q,
                             ![s].pc = IF q = << >> THEN "live" ELSE "write_cached"]
    /\ UNCHANGED << engineVars, reconnect_attempts, stream_health,
                    frame_broadcasters, init_segments, recent_segments, task,
                    unit_seq, emitted, ghostVars >>

\* for fragment in &cached_fragments { stream.write_all(fragment) } succeeds
HttpWriteCached(s) ==
    /\ sub[s].pc = "write_cached"
    /\ sub' = [sub EXCEPT ![s].written = Append(@, Head(sub[s].pending)),
                          ![s].from_cache = @ + 1,
                          ![s].pending = Tail(@),
                          ![s].pc = IF Tail(sub[s].pending) = << >>
                                    THEN "live" ELSE "write_cached"]
    /\ UNCHANGED << engineVars, reconnect_attempts, stream_health,
                    frame_broadcasters, init_segments, recent_segments, task,
                    unit_seq, emitted, ghostVars >>

\* loop { match rx.recv().await { Ok(box_data) => write it,
\*   Err(Lagged(n)) => continue, Err(Closed) => break } }
\* No Sender is ever dropped (each stays in frame_broadcasters), so recv never
\* reports Closed.
\* A faulty handler, for comparison: Lagged ends the live loop.
HttpRecvLaggedBreaks(s) == [sub EXCEPT ![s].pc = "closed", ![s].end = "lagged",
                                       ![s].lagged = @ + 1]

HttpRecvLagged(s) == [sub EXCEPT ![s].rx_next = Oldest(frame_broadcasters[sub[s].cam]),
                                 ![s].lagged = @ + 1, ![s].after_lag = TRUE]

HttpRecv(s) ==
    /\ sub[s].pc = "live"
    /\ LET ch == frame_broadcasters[sub[s].cam]
           n == sub[s].rx_next
       IN /\ RecvReady(ch, n)
          /\ sub' = IF RecvLagged(ch, n)
                    THEN HttpRecvLagged(s)
                    ELSE [sub EXCEPT ![s].pc = "write_live",
                                     ![s].item = RecvValue(ch, n),
                                     ![s].rx_next = n + 1]
    /\ UNCHANGED << engineVars, reconnect_attempts, stream_health,
                    frame_broadcasters, init_segments, recent_segments, task,
                    unit_seq, emitted, ghostVars >>

\* stream.write_all(&box_data) succeeds
HttpWriteLive(s) ==
    /\ sub[s].pc = "write_live"
    /\ sub' = [sub EXCEPT ![s].pc = "live", ![s].item = NoUnit,
                          ![s].after_lag = FALSE,
                          ![s].written = Append(@, sub[s].item)]
    /\ UNCHANGED << engineVars, reconnect_attempts, stream_health,
                    frame_broadcasters, init_segments, recent_segments, task,
                    unit_seq, emitted, ghostVars >>

\* The pcs at which the handler is inside a stream.write_all.
WritePcs == {"headers", "write_init", "write_cached", "write_live"}

\* stream.write_all(..).is_err(): return (break in the live loop); the handler
\* ends and its Receiver is dropped.
HttpWriteFail(s) ==
    /\ sub[s].pc \in WritePcs
    /\ sub' = [sub EXCEPT ![s].pc = "closed", ![s].end = "write error",
                          ![s].item = NoUnit, ![s].pending = << >>,
                          ![s].after_lag = FALSE]
    /\ frame_broadcasters' = [frame_broadcasters EXCEPT ![sub[s].cam].rx = @ - 1]
    /\ UNCHANGED << engineVars, reconnect_attempts, stream_health, init_segments,
                    recent_segments, task, unit_seq, emitted, ghostVars >>

\* One step of HTTP stream handler s.
HttpStream(s) ==
    \/ \E c \in Cams : HttpSubscribe(s, c)
    \/ HttpWriteHeaders(s)
    \/ HttpSnapshotInit(s)
    \/ HttpWriteInit(s)
    \/ HttpSnapshotRecent(s)
    \/ HttpWriteCached(s)
    \/ HttpRecv(s)
    \/ HttpWriteLive(s)
    \/ HttpWriteFail(s)

\* ------------------------------------------------------------- retry runs

\* ---------------------------------------------------------------- commands

supVars == << reconnect_attempts, stream_health, frame_broadcasters,
              init_segments, recent_segments, sub, unit_seq >>

\* Some handler holds the stream_tasks mutex.
TasksLocked == \E h \in Handlers : cmd[h].lock

Range(q) == {q[i] : i \in DOMAIN q}

\* The task slots never used; spawn takes them in order.
FreeIds == {t \in TaskIds : task[t].pc = "none"}

NthFree(i) == CHOOSE t \in FreeIds : Cardinality({u \in FreeIds : u < t}) = i - 1

LastIdx(cams, c) ==
    CHOOSE i \in DOMAIN cams : cams[i] = c /\ \A j \in DOMAIN cams : cams[j] = c => j <= i

\* for (_, handle) in tasks.drain() { handle.abort(); }
AbortAll(tk, m) ==
    [t \in TaskIds |-> IF \E c \in DOMAIN m : m[c] = t
                       THEN [tk[t] EXCEPT !.aborted = TRUE] ELSE tk[t]]

\* for camera in &cameras { let handle = spawn(stream_camera(..)); .. }
SpawnAll(tk, cams) ==
    [t \in TaskIds |-> IF \E i \in DOMAIN cams : NthFree(i) = t
                       THEN NewTask(cams[CHOOSE i \in DOMAIN cams : NthFree(i) = t])
                       ELSE tk[t]]

\* .. tasks.insert(camera.id.clone(), handle): a later insert under the same id
\* replaces the earlier handle, which detaches that task.
InsertAll(m, cams) ==
    [c \in (DOMAIN m) \cup Range(cams) |->
        IF c \in Range(cams) THEN NthFree(LastIdx(cams, c)) ELSE m[c]]

\* The configurations a user saves.
Configs == {<< "a" >>, << "a", "b" >>}

\* start_streams: state.config.lock() => cfg.clone()
StartReadConfig ==
    /\ cmd["ui"].pc = "idle" /\ MayIssue
    /\ Len(config) <= Cardinality(FreeIds)
    /\ cmd' = [cmd EXCEPT !["ui"] = [Begin("ui", "start_streams") EXCEPT
                                        !.pc = "lock_tasks", !.cams = config]]
    /\ UNCHANGED << config, disk_config, stream_tasks, supVars, task, emitted,
                    ghostVars >>

\* start_streams: lock stream_tasks; drain and abort; spawn and insert one
\* supervisor per camera; the guard drops at return.
StartSpawn ==
    /\ cmd["ui"].op = "start_streams" /\ cmd["ui"].pc = "lock_tasks"
    /\ ~TasksLocked /\ "stream_tasks" \notin poisoned
    /\ Len(cmd["ui"].cams) <= Cardinality(FreeIds)
    /\ task' = SpawnAll(AbortAll(task, stream_tasks), cmd["ui"].cams)
    /\ stream_tasks' = InsertAll(EmptyMap, cmd["ui"].cams)
    /\ stopped' = FALSE
    /\ cmd' = [cmd EXCEPT !["ui"] = Return("ui")]
    /\ UNCHANGED << config, disk_config, supVars, emitted, streak, fails,
                    poisoned, locks >>

\* A faulty collection, for comparison: the keys read after the drain.
StopCameraIdsAfterDrain(m) == DOMAIN EmptyMap

\* camera_ids = tasks.keys().cloned().collect(), taken before the drain
StopCameraIds(m) == DOMAIN m

\* stop_streams: lock stream_tasks; collect camera_ids; drain and abort
StopDrain ==
    /\ cmd["ui"].pc = "idle" /\ MayIssue
    /\ ~TasksLocked /\ "stream_tasks" \notin poisoned
    /\ cmd' = [cmd EXCEPT !["ui"] = [Begin("ui", "stop_streams") EXCEPT
                                        !.pc = "clear_health",
                                        !.lock = TRUE,
                                        !.ids = StopCameraIds(stream_tasks),
                                        !.had = DOMAIN stream_tasks,
                                        !.killed = Range(stream_tasks),
                                        !.second = stopped]]
    /\ task' = AbortAll(task, stream_tasks)
    /\ stream_tasks' = EmptyMap
    /\ stopped' = TRUE
    /\ UNCHANGED << config, disk_config, supVars, emitted, streak, fails,
                    poisoned, locks >>

\* if let Ok(mut health) = state.stream_health.lock() { health.clear(); }
StopClearHealth ==
    /\ cmd["ui"].op = "stop_streams" /\ cmd["ui"].pc = "clear_health"
    /\ stream_health' = IfLockOk("stream_health", EmptyMap, stream_health)
    /\ cmd' = [cmd EXCEPT !["ui"].pc = "clear_attempts"]
    /\ UNCHANGED << config, disk_config, stream_tasks, reconnect_attempts,
                    frame_broadcasters, init_segments, recent_segments, sub,
                    unit_seq, task, emitted, ghostVars >>

\* if let Ok(mut attempts) = state.reconnect_attempts.lock() { attempts.clear(); }
StopClearAttempts ==
    /\ cmd["ui"].op = "stop_streams" /\ cmd["ui"].pc = "clear_attempts"
    /\ reconnect_attempts' = IfLockOk("reconnect_attempts", EmptyMap, reconnect_attempts)
    /\ cmd' = [cmd EXCEPT !["ui"].pc = "clear_init"]
    /\ UNCHANGED << config, disk_config, stream_tasks, stream_health,
                    frame_broadcasters, init_segments, recent_segments, sub,
                    unit_seq, task, emitted, ghostVars >>

\* if let Ok(mut init_segs) = state.init_segments.lock() { init_segs.clear(); }
StopClearInit ==
    /\ cmd["ui"].op = "stop_streams" /\ cmd["ui"].pc = "clear_init"
    /\ init_segments' = IfLockOk("init_segments", EmptyMap, init_segments)
    /\ cmd' = [cmd EXCEPT !["ui"].pc = "clear_recent"]
    /\ UNCHANGED << config, disk_config, stream_tasks, reconnect_attempts,
                    stream_health, frame_broadcasters, recent_segments, sub,
                    unit_seq, task, emitted, ghostVars >>

\* if let Ok(mut recent_segs) = .. { recent_segs.clear(); }  drop(tasks);
StopClearRecent ==
    /\ cmd["ui"].op = "stop_streams" /\ cmd["ui"].pc = "clear_recent"
    /\ recent_segments' = IfLockOk("recent_segments", EmptyMap, recent_segments)
    /\ cmd' = [cmd EXCEPT !["ui"].lock = FALSE,
                          !["ui"].pc = IF cmd["ui"].ids = {} THEN "idle" ELSE "emit"]
    /\ UNCHANGED << config, disk_config, stream_tasks, reconnect_attempts,
                    stream_health, frame_broadcasters, init_segments, sub,
                    unit_seq, task, emitted, ghostVars >>

\* for id in camera_ids { app.emit("camera-status", offline) }, one id
StopEmitOffline ==
    /\ cmd["ui"].op = "stop_streams" /\ cmd["ui"].pc = "emit"
    /\ \E c \in cmd["ui"].ids :
          /\ emitted' = Event("camera-status", c, "offline", 0)
          /\ cmd' = [cmd EXCEPT !["ui"].ids = @ \ {c},
                                !["ui"].offl = Append(@, c),
                                !["ui"].pc = IF cmd["ui"].ids = {c} THEN "idle"
                                             ELSE "emit"]
    /\ UNCHANGED << config, disk_config, stream_tasks, supVars, task, ghostVars >>

\* save_config: std::fs::write(&state.config_path, json)
SaveWrite(cfg) ==
    /\ cmd["ui"].pc = "idle" /\ MayIssue
    /\ cfg # disk_config
    /\ disk_config' = cfg
    /\ cmd' = [cmd EXCEPT !["ui"] = [Begin("ui", "save_config") EXCEPT
                                        !.pc = "set_config", !.cams = cfg]]
    /\ UNCHANGED << config, stream_tasks, supVars, task, emitted, ghostVars >>

\* save_config: *state.config.lock() = config
SaveSet ==
    /\ cmd["ui"].op = "save_config" /\ cmd["ui"].pc = "set_config"
    /\ config' = cmd["ui"].cams
    /\ cmd' = [cmd EXCEPT !["ui"] = Return("ui")]
    /\ UNCHANGED << disk_config, stream_tasks, supVars, task, emitted, ghostVars >>

\* api_reload, stop phase: lock stream_tasks; collect camera_ids; drain and
\* abort; lock and clear stream_health and reconnect_attempts; drop the guards.
ApiStop ==
    /\ cmd["api"].pc = "idle" /\ MayIssue
    /\ ~TasksLocked
    /\ cmd' = [cmd EXCEPT !["api"] =
                  [Begin("api", "api_reload") EXCEPT
                      !.ids = DOMAIN stream_tasks,
                      !.pc = IF DOMAIN stream_tasks = {} THEN "load" ELSE "emit"]]
    /\ task' = AbortAll(task, stream_tasks)
    /\ stream_tasks' = EmptyMap
    /\ stream_health' = EmptyMap
    /\ reconnect_attempts' = EmptyMap
    /\ UNCHANGED << config, disk_config, frame_broadcasters, init_segments,
                    recent_segments, sub, unit_seq, emitted, ghostVars >>

\* api_reload: for id in camera_ids { app.emit("camera-status", offline) }
ApiEmitOffline ==
    /\ cmd["api"].op = "api_reload" /\ cmd["api"].pc = "emit"
    /\ \E c \in cmd["api"].ids :
          /\ emitted' = Event("camera-status", c, "offline", 0)
          /\ cmd' = [cmd EXCEPT !["api"].ids = @ \ {c},
                                !["api"].pc = IF cmd["api"].ids = {c} THEN "load"
                                              ELSE "emit"]
    /\ UNCHANGED << config, disk_config, stream_tasks, supVars, task, ghostVars >>

\* api_reload: let (config, _) = load_config()
ApiLoadConfig ==
    /\ cmd["api"].op = "api_reload" /\ cmd["api"].pc = "load"
    /\ cmd' = [cmd EXCEPT !["api"].cams = disk_config, !["api"].pc = "set_config"]
    /\ UNCHANGED << config, disk_config, stream_tasks, supVars, task, emitted,
                    ghostVars >>

\* api_reload: *state.config.lock() = config
ApiSetConfig ==
    /\ cmd["api"].op = "api_reload" /\ cmd["api"].pc = "set_config"
    /\ config' = cmd["api"].cams
    /\ cmd' = [cmd EXCEPT !["api"].pc = "lock_tasks"]
    /\ UNCHANGED << disk_config, stream_tasks, supVars, task, emitted, ghostVars >>

\* api_reload, start phase: lock stream_tasks again; spawn and insert one
\* supervisor per camera, without a drain.
ApiSpawn ==
    /\ cmd["api"].op = "api_reload" /\ cmd["api"].pc = "lock_tasks"
    /\ ~TasksLocked
    /\ Len(cmd["api"].cams) <= Cardinality(FreeIds)
    /\ task' = SpawnAll(task, cmd["api"].cams)
    /\ stream_tasks' = InsertAll(stream_tasks, cmd["api"].cams)
    /\ stopped' = FALSE
    /\ cmd' = [cmd EXCEPT !["api"].pc = "emit_reload"]
    /\ UNCHANGED << config, disk_config, supVars, emitted, streak, fails,
                    poisoned, locks >>

\* api_reload: app.emit("reload-config", {"ok": true})
ApiEmitReload ==
    /\ cmd["api"].op = "api_reload" /\ cmd["api"].pc = "emit_reload"
    /\ emitted' = Event("reload-config", "", "", 0)
    /\ cmd' = [cmd EXCEPT !["api"] = Return("api")]
    /\ UNCHANGED << config, disk_config, stream_tasks, supVars, task, ghostVars >>

StartStreams == StartReadConfig \/ StartSpawn

StopStreams ==
    \/ StopDrain
    \/ StopClearHealth
    \/ StopClearAttempts
    \/ StopClearInit
    \/ StopClearRecent
    \/ StopEmitOffline

SaveConfig == (\E cfg \in Configs : SaveWrite(cfg)) \/ SaveSet

ApiReload ==
    \/ ApiStop
    \/ ApiEmitOffline
    \/ ApiLoadConfig
    \/ ApiSetConfig
    \/ ApiSpawn
    \/ ApiEmitReload

\* The application with configuration cfg on disk and in memory, and one
\* supervisor task per camera of `cams`, spawned and not yet polled.
InitWith(cfg, cams) ==
    /\ config = cfg
    /\ disk_config = cfg
    /\ stream_tasks = [c \in {cams[i] : i \in DOMAIN cams} |->
                          CHOOSE i \in DOMAIN cams : cams[i] = c]
    /\ cmd = [h \in Handlers |-> NoCmd]
    /\ reconnect_attempts = EmptyMap
    /\ stream_health = EmptyMap
    /\ frame_broadcasters = EmptyMap
    /\ init_segments = EmptyMap
    /\ recent_segments = EmptyMap
    /\ task = [t \in TaskIds |-> IF t \in DOMAIN cams THEN NewTask(cams[t]) ELSE NoTask]
    /\ sub = [s \in SubIds |-> NoSub]
    /\ unit_seq = [c \in Cams |-> 0]
    /\ emitted = NoEvent
    /\ streak = [t \in TaskIds |-> 0]
    /\ fails = [t \in TaskIds |-> 0]
    /\ stopped = FALSE
    /\ poisoned = {}
    /\ locks = NoLocks

\* The engine after start_streams with the cameras of `cams`.
InitSupervisors(cams) == InitWith(cams, cams)

InitBackoff == InitSupervisors(<< "a" >>)

WBackoff == WorkerProfile(MaxAttempt, MaxUnits, BOOLEAN, FALSE)

NextBackoff == \E t \in TaskIds : Supervisor(t, WBackoff)

SpecBackoff == InitBackoff /\ [][NextBackoff]_vars

\* The backoff schedule as the specification tabulates it.
Schedule(n) == IF n <= 5 THEN << 1, 2, 4, 8, 16 >>[n] ELSE IF n <= 10 THEN 60 ELSE 300

\* C7: calculate_backoff(n) is 1, 2, 4, 8, 16 seconds for n = 1..5, 60 s for
\* n = 6..10 and 300 s from n = 11 on, and a supervisor asleep after its n-th
\* attempt in a row that returned Err without going online sleeps exactly
\* the schedule's wait for n.
C7_BackoffSchedule ==
    /\ \A n \in 1..(MaxAttempt + 2) : calculate_backoff(n) = Schedule(n)
    /\ \A t \in TaskIds :
          (task[t].pc = "sleep" /\ task[t].err # "" /\ ~task[t].init_sent)
             => task[t].backoff = Schedule(fails[t])

\* A supervisor asleep for 300 s after its eleventh failure in a row.
C7_Witness ==
    \E t \in TaskIds : /\ task[t].pc = "sleep"
                       /\ task[t].err # ""
                       /\ fails[t] = 11
                       /\ task[t].backoff = 300

\* C8: over attempts in a row that never go online (those ending in EOF
\* without a unit included) the attempt number counts 1, 2, 3, ...: the
\* counter is reset only by the transition to online.
C8_AttemptCountsUp ==
    \A t \in TaskIds :
       task[t].pc = "connecting" => task[t].attempt = streak[t] + 1

\* C9: a stream-error event is emitted only during an attempt numbered 3 or
\* more.
C9_ErrorOnlyFromThird ==
    emitted.name = "stream-error" => emitted.attempt >= 3

\* ---------------------------------------------------- recent-fragment runs

\* One camera whose worker never fails and writes a well-formed stream, and no
\* HTTP client.
InitRing == InitSupervisors(<< "a" >>)

WRing == WorkerProfile(1, RingUnits, BOOLEAN, TRUE)

NextRing == \E t \in TaskIds : Streaming(t, WRing)

SpecRing == InitRing /\ [][NextRing]_vars

\* C3: every camera's recent-fragment ring is empty or starts with a
\* keyframed fragment.
C3_RingHeadIsKeyframe ==
    \A c \in DOMAIN recent_segments :
       recent_segments[c] = << >> \/ recent_segments[c][1].key

\* ------------------------------------------------------------ handoff runs

\* One camera whose worker writes well-formed streams and may fail and be
\* restarted, and HTTP clients that ask for its stream at any moment.
InitStream == InitSupervisors(<< "a" >>)

WStream == WorkerProfile(StreamAttempts, StreamUnits, BOOLEAN, TRUE)

NextStream ==
    \/ \E t \in TaskIds : Supervisor(t, WStream)
    \/ \E s \in SubIds : HttpStream(s)

SpecStream == InitStream /\ [][NextStream]_vars

\* What handler s has written once its two cache snapshots are on the socket.
PastCaches(s) == sub[s].pc \in {"live", "write_live"}

\* C2: across the handoff from the caches to the live channel, no unit is
\* written twice to a client, and (when its Receiver never reported lag) no
\* unit emitted after the last cached fragment is missing: past the first
\* cached fragment the written units are consecutive units of the producer.
C2_HandoffNoDuplicateNoGap ==
    \A s \in SubIds :
        LET wr == sub[s].written
        IN /\ \A i, j \in DOMAIN wr : i < j => wr[i].id # wr[j].id
           /\ sub[s].lagged = 0 =>
                \A i \in DOMAIN wr :
                    (i > 1 /\ wr[i - 1].kind = "frag") => wr[i].id = wr[i - 1].id + 1

\* C5: a client is never written a fragment after a fragment that the producer
\* emitted later.
C5_WrittenInEmitOrder ==
    \A s \in SubIds :
        LET wr == sub[s].written
        IN \A i, j \in DOMAIN wr :
               (i < j /\ wr[i].kind = "frag" /\ wr[j].kind = "frag")
                   => wr[i].id <= wr[j].id

\* C4: a client that found the camera's init segment cached is written an init
\* segment first, and the first cached fragment it is written is keyframed and
\* was produced under that init segment.
C4_JoinStartsDecodable ==
    \A s \in SubIds :
        LET wr == sub[s].written
        IN (PastCaches(s) /\ wr # << >> /\ wr[1].kind = "init") =>
               (sub[s].from_cache >= 2 => (wr[2].key /\ wr[2].init = wr[1].id))

\* --------------------------------------------------------- slow-client runs

\* One camera whose worker emits LagUnits units without failing, and one HTTP
\* client that asks early, is served the caches while the worker is within its
\* first LagJoinBy units, and then reads the live channel at any pace, so that
\* the channel of ChannelCapacity slots overruns it.
InitLag == InitSupervisors(<< "a" >>)

WLag == WorkerProfile(1, LagUnits, {TRUE}, TRUE)

LagClient == CHOOSE s \in SubIds : TRUE

HttpSubscribeEarly(s) ==
    \E c \in Cams : unit_seq[c] <= LagJoinBy /\ HttpSubscribe(s, c)

HttpStreamAfter(s) ==
    \/ HttpWriteHeaders(s)
    \/ HttpSnapshotInit(s)
    \/ HttpWriteInit(s)
    \/ HttpSnapshotRecent(s)
    \/ HttpWriteCached(s)
    \/ HttpRecv(s)
    \/ HttpWriteLive(s)
    \/ HttpWriteFail(s)

ClientSettled(s) == sub[s].pc \in {"idle", "live", "write_live", "closed"}

StreamingPaced(t, s) ==
    /\ task[t].pc # "none"
    /\ ClientSettled(s) \/ unit_seq[task[t].cam] < LagJoinBy
    /\ Streaming(t, WLag)

NextLag ==
    \/ \E t \in TaskIds : StreamingPaced(t, LagClient)
    \/ HttpSubscribeEarly(LagClient)
    \/ HttpStreamAfter(LagClient)

SpecLag == InitLag /\ [][NextLag]_vars

InLiveLoop(s) == sub[s].pc \in {"live", "write_live"}

\* C6: a Lagged result leaves the client in the live loop and subscribed, the
\* successful receive that follows it yields the oldest unit the channel still
\* holds, and the live loop ends only on a socket write error or a Closed
\* channel.
C6_LaggedClientResumesAtOldest ==
    [][\A s \in SubIds :
          /\ sub'[s].lagged > sub[s].lagged =>
                /\ sub'[s].pc = "live"
                /\ frame_broadcasters'[sub[s].cam].rx = frame_broadcasters[sub[s].cam].rx
                /\ RecvReady(frame_broadcasters'[sub[s].cam], sub'[s].rx_next)
          /\ (sub[s].after_lag /\ sub[s].pc = "live" /\ sub'[s].pc = "write_live") =>
                sub'[s].item = Head(frame_broadcasters[sub[s].cam].buf)
          /\ (InLiveLoop(s) /\ ~InLiveLoop(s)') =>
                sub'[s].end \in {"write error", "closed channel"}
      ]_vars

C6_Witness ==
    \E s \in SubIds : /\ sub[s].pc = "write_live"
                      /\ sub[s].after_lag
                      /\ sub[s].item.kind = "frag"
                      /\ Len(frame_broadcasters[sub[s].cam].buf) = ChannelCapacity

\* -------------------------------------------------------------- engine runs

\* The application after setup: the configuration read from disk, no
\* supervisor yet; then the front end issues start_streams, stop_streams and
\* save_config, the HTTP API api_reload, and the supervisors bring up their
\* workers.
InitEngine == \E cfg \in Configs : InitWith(cfg, << >>)

\* No supervisor gets past its worker's start here, so the reconnect counter
\* cannot exceed the number of tasks.
WEngine == WorkerProfile(MaxTasks, 0, {TRUE}, TRUE)

NextEngine ==
    \/ StartStreams
    \/ StopStreams
    \/ SaveConfig
    \/ ApiReload
    \/ \E t \in TaskIds : Connecting(t, WEngine) \/ DropFuture(t)

SpecEngine == InitEngine /\ [][NextEngine]_vars

\* C1: no camera id ever has two worker processes (spawned FFmpeg children not
\* yet killed or dropped) at once.
C1_OneWorkerPerCamera ==
    \A c \in Cams : Cardinality({t \in TaskIds : task[t].cam = c /\ task[t].worker}) <= 1

\* C10: stop_streams emits offline once for each camera id that was a key of
\* stream_tasks when it was called and for no other id, and a stop_streams
\* that follows another with no spawn in between emits nothing.
C10_StopEmitsOfflineOncePerTask ==
    LET u == cmd["ui"]
    IN u.op = "stop_streams" =>
          /\ Range(u.offl) \subseteq u.had
          /\ \A i, j \in DOMAIN u.offl : i # j => u.offl[i] # u.offl[j]
          /\ u.pc = "idle" => Range(u.offl) = u.had
          /\ u.second => (u.had = {} /\ u.offl = << >>)
          /\ u.pc = "emit" => u.ids = u.had \ Range(u.offl)

C10_Witness ==
    /\ cmd["ui"].op = "stop_streams"
    /\ cmd["ui"].pc = "idle"
    /\ cmd["ui"].had = {"a", "b"}
    /\ Len(cmd["ui"].offl) = 2

\* ------------------------------------------------------ health-task runs

\* The front end starts and stops the streams while the supervisors bring up
\* their workers and the health tasks tick.
NextHealth ==
    \/ StartStreams
    \/ StopStreams
    \/ \E t \in TaskIds : Connecting(t, WEngine) \/ DropFuture(t) \/ HealthTask(t)

SpecHealth == InitEngine /\ [][NextHealth]_vars

\* stop_streams was the front end's latest command and has returned.
StopReturned == cmd["ui"].op = "stop_streams" /\ cmd["ui"].pc = "idle"

\* C11: once stop_streams has returned, the health task of a supervisor it
\* aborted writes no stream_health entry and emits no stream-health event.
C11_NoHealthAfterStop ==
    [][\A t \in TaskIds :
          (StopReturned /\ t \in cmd["ui"].killed)
              => /\ task[t].htask = "insert" => task'[t].htask = "insert"
                 /\ task[t].htask = "emit" => task'[t].htask = "emit"
                 /\ task[t].htask = "tick" => task'[t].htask # "insert"
      ]_vars

\* -------------------------------------------------------------- cache runs

\* The front end starts and stops the streams while the supervisors stream.
WCaches == WorkerProfile(MaxTasks, CacheUnits, {TRUE}, TRUE)

NextCaches ==
    \/ StartStreams
    \/ StopStreams
    \/ \E t \in TaskIds : Streaming(t, WCaches) \/ DropFuture(t)

SpecCaches == InitEngine /\ [][NextCaches]_vars

\* No supervisor task is running.
AllStopped == \A t \in TaskIds : task[t].pc \in {"none", "dead"}

\* C12: once stop_streams has returned and the supervisors it aborted have
\* stopped running, stream_health, reconnect_attempts, init_segments and
\* recent_segments hold no entry.
C12_CachesEmptyAfterStop ==
    (StopReturned /\ AllStopped) =>
        /\ stream_health = EmptyMap
        /\ reconnect_attempts = EmptyMap
        /\ init_segments = EmptyMap
        /\ recent_segments = EmptyMap

\* The step in which start_streams drains, spawns and returns.
StartReturns ==
    /\ cmd["ui"].op = "start_streams" /\ cmd["ui"].pc = "lock_tasks"
    /\ cmd'["ui"].pc = "idle"

\* C13: when start_streams returns, every supervisor tracked before is
\* aborted, the four caches are empty, and stream_tasks tracks exactly one
\* fresh supervisor per camera of the configuration.
C13_StartClearsAndRespawns ==
    [][StartReturns =>
          /\ \A t \in Range(stream_tasks) : task'[t].aborted
          /\ stream_health' = EmptyMap
          /\ reconnect_attempts' = EmptyMap
          /\ init_segments' = EmptyMap
          /\ recent_segments' = EmptyMap
          /\ DOMAIN stream_tasks' = Range(cmd["ui"].cams)
          /\ \A c \in DOMAIN stream_tasks' :
                /\ task'[stream_tasks'[c]] = NewTask(c)
                /\ task[stream_tasks'[c]].pc = "none"
      ]_vars

\* ------------------------------------------------------------- reload runs

\* The front end starts the streams, the HTTP API reloads, and the
\* supervisors stream.
NextReload ==
    \/ StartStreams
    \/ SaveConfig
    \/ ApiReload
    \/ \E t \in TaskIds : Streaming(t, WCaches) \/ DropFuture(t)

SpecReload == InitEngine /\ [][NextReload]_vars

\* The step in which api_reload spawns the supervisors of the loaded
\* configuration.
ApiSpawns ==
    /\ cmd["api"].op = "api_reload" /\ cmd["api"].pc = "lock_tasks"
    /\ cmd'["api"].pc = "emit_reload"

\* C14: api_reload leaves what stop_streams, load_config and start_streams
\* leave: when it has spawned the supervisors of the loaded configuration the
\* four caches are empty and stream_tasks tracks exactly one fresh supervisor
\* per loaded camera, and reload-config is emitted only after that.
C14_ReloadIsStopLoadStart ==
    [][/\ ApiSpawns =>
             /\ stream_health' = EmptyMap
             /\ reconnect_attempts' = EmptyMap
             /\ init_segments' = EmptyMap
             /\ recent_segments' = EmptyMap
             /\ DOMAIN stream_tasks' = Range(cmd["api"].cams)
             /\ \A c \in DOMAIN stream_tasks' : task'[stream_tasks'[c]] = NewTask(c)
       /\ (emitted'.name = "reload-config" /\ emitted.name # "reload-config") =>
             cmd["api"].pc = "emit_reload"
      ]_vars

\* Supervisor task t is inside an attempt (from the loop head to the end of
\* try_stream_camera) and not in the middle of publishing its init segment.
InAttempt(t) ==
    task[t].pc \in {"connecting", "mkchan", "spawn", "health_init", "read",
                    "init_send", "init_reset", "init_online", "frag_cache",
                    "frag_send"}

\* C15: an init segment is cached for a camera exactly when the camera's
\* current attempt has produced a moov, and while it has not, the
\* recent-fragment ring holds nothing of an earlier attempt.
C15_CachesBelongToCurrentAttempt ==
    \A t \in TaskIds :
        InAttempt(t) =>
            LET c == task[t].cam
            IN /\ Has(init_segments, c) <=> task[t].init_sent
               /\ ~task[t].init_sent =>
                     (~Has(recent_segments, c) \/ recent_segments[c] = << >>)

\* --------------------------------------------------------- two-camera runs

\* Two cameras, each with its supervisor; either worker may fail in any way
\* at any time.
InitIsolation == InitSupervisors(<< "a", "b" >>)

WIsolation == WorkerProfile(IsoAttempts, IsoUnits, {TRUE}, TRUE)

NextIsolation == \E t \in TaskIds : Supervisor(t, WIsolation)

SpecIsolation == InitIsolation /\ [][NextIsolation]_vars

\* What map m holds under key c.
Entry(m, c) == IF Has(m, c) THEN << m[c] >> ELSE << >>

\* C20: a step of the supervisor of one camera, its failures included, emits
\* no event tagged with another camera and changes no entry of another camera
\* in stream_health, reconnect_attempts, init_segments, recent_segments and
\* frame_broadcasters.
C20_CameraIsolation ==
    [][\A t \in TaskIds :
          task'[t] # task[t] =>
              /\ emitted' # emitted => emitted'.cam = task[t].cam
              /\ \A b \in Cams \ {task[t].cam} :
                    /\ Entry(stream_health', b) = Entry(stream_health, b)
                    /\ Entry(reconnect_attempts', b) = Entry(reconnect_attempts, b)
                    /\ Entry(init_segments', b) = Entry(init_segments, b)
                    /\ Entry(recent_segments', b) = Entry(recent_segments, b)
                    /\ Entry(frame_broadcasters', b) = Entry(frame_broadcasters, b)
      ]_vars

C20_Witness ==
    \E t, u \in TaskIds :
        /\ task[t].cam = "a" /\ task[t].pc = "sleep" /\ task[t].err = "read error"
        /\ task[u].cam = "b" /\ task[u].pc = "read" /\ task[u].frames > 0
        /\ Has(stream_health, "b") /\ Has(init_segments, "b")
        /\ Has(recent_segments, "b") /\ reconnect_attempts["b"] = 0

\* ---------------------------------------------------------------- parser runs

\* The boxes the worker may write: each box type the parser tells apart, a moof
\* with and without a keyframe, each of the least size that holds it, and
\* eight bytes with an invalid size field.
BoxAlphabet ==
    {Box("ftyp", HeaderLen, FALSE, 0), Box("moov", HeaderLen, FALSE, 0),
     Box("moof", 2 * HeaderLen, TRUE, 1), Box("moof", 2 * HeaderLen, FALSE, 1),
     Box("mdat", HeaderLen, FALSE, 0), Box("free", HeaderLen, FALSE, 0),
     BadBox}

Streams(boxes, n) == UNION {[1..k -> boxes] : k \in 0..n}

InitParser == InitSupervisors(<< "a" >>)

\* Ok(Ok(0)) => break, once the worker has written all its boxes and exited
ParserEof(t) ==
    /\ task[t].px.rd = Bytes(task[t].px.stream)
    /\ ReadEof(t)

\* One step of supervisor task t whose worker writes one of `streams` and
\* whose reads return one of the byte counts ns, up to the return of
\* try_stream_camera.
Parsing(t, streams, ns) ==
    \/ SupEnter(t, ParserAttempts)
    \/ SupEmitConnecting(t)
    \/ TryCreateBroadcaster(t)
    \/ TrySpawnStream(t, streams)
    \/ TryInitHealth(t)
    \/ ReadChunk(t, ns)
    \/ ParseBox(t)
    \/ EndParse(t)
    \/ PublishInitCache(t)
    \/ PublishInitSend(t)
    \/ PublishInitReset(t)
    \/ PublishInitOnline(t)
    \/ CacheFragment(t)
    \/ BroadcastFragment(t)
    \/ ParserEof(t)
    \/ TryRemoveHealth(t)
    \/ TryReturnOk(t)

\* Every split of the stream into reads.
NextParser ==
    \E t \in TaskIds :
        Parsing(t, Streams(BoxAlphabet, MaxBoxes), 1..(MaxBoxes * 2 * HeaderLen))

SpecParser == InitParser /\ [][NextParser]_vars

\* The moov boxes among the boxes bs.
Moovs(bs) == Cardinality({i \in DOMAIN bs : bs[i].type = "moov"})

\* Task t takes a step of the publication of an init segment: the cache
\* insert, the send, the counter reset or the online event.
PublishesInit(t) ==
    /\ task[t].pc \in {"init_cache", "init_send", "init_reset", "init_online"}
    /\ task'[t].pc # task[t].pc

\* C16: within one attempt the init segment is published once, at the first
\* moov box: every step of a publication (cache insert, send, counter reset,
\* online event) belongs to the pass of the loop that accumulated the first
\* moov, the published bytes are the ftyp and moov boxes accumulated up to that
\* moov, which is ftyp||moov when the worker's output starts with ftyp, moov,
\* and a later ftyp or moov starts no publication and changes neither the
\* cached init segment nor the last event.
C16_InitPublishedOnceAtFirstMoov ==
    [][\A t \in TaskIds :
         LET r == task[t]
             c == r.cam
             bs == r.px.stream
         IN /\ PublishesInit(t) =>
                 /\ Moovs(r.px.init_buf) = 1
                 /\ r.px.init_buf[Len(r.px.init_buf)].type = "moov"
                 /\ r.unit.kind = "init"
                 /\ r.unit.boxes = Types(r.px.init_buf)
                 /\ (Len(bs) >= 2 /\ bs[1].type = "ftyp" /\ bs[2].type = "moov")
                       => r.unit.boxes = << "ftyp", "moov" >>
            /\ (r.pc = "parse" /\ r.init_sent) =>
                 /\ task'[t].pc \in {"parse", "read", "frag_cache", "panicked"}
                 /\ Entry(init_segments', c) = Entry(init_segments, c)
                 /\ emitted' = emitted
            /\ (r.pc \in {"parse", "read"}) => (r.init_sent <=> Moovs(r.px.init_buf) >= 1)
            /\ (r.pc = "init_cache" /\ task'[t].pc = "init_send")
                 => init_segments'[c] = r.unit
            /\ (r.pc = "init_online" /\ task'[t].pc # "init_online")
                 => emitted'.status = "online"]_vars

\* C16 witness: the worker wrote ftyp, moov and a second moov, all three are
\* parsed, and the cached init segment is the ftyp||moov of the first moov.
C16_Witness ==
    \E t \in TaskIds :
        /\ task[t].pc = "read"
        /\ Types(task[t].px.stream) = << "ftyp", "moov", "moov" >>
        /\ task[t].px.lo = Bytes(task[t].px.stream)
        /\ Len(task[t].px.init_buf) = 3
        /\ Has(init_segments, task[t].cam)
        /\ init_segments[task[t].cam].boxes = << "ftyp", "moov" >>
        /\ emitted.status = "online"

\* Task t takes a step of the publication of a fragment: the push to the
\* recent-fragment ring or the broadcast.
PublishesFragment(t) ==
    /\ task[t].pc \in {"frag_cache", "frag_send"}
    /\ task'[t].pc # task[t].pc

\* C17: for every order of boxes the worker can output, the init segment is
\* inserted in the cache before it is sent to the channel, and it has been
\* sent before any fragment of the attempt is cached or broadcast.
C17_InitBeforeFragments ==
    [][\A t \in TaskIds :
         /\ (task[t].pc = "init_cache" /\ task'[t].pc # "init_cache")
               => /\ task'[t].pc = "init_send"
                  /\ init_segments'[task[t].cam] = task[t].unit
         /\ PublishesFragment(t) => task[t].init_sent]_vars

\* C18: for every sequence of top-level boxes, every fragment that is cached
\* or broadcast is one moof box immediately followed by one mdat box.
C18_FragmentIsMoofMdat ==
    /\ \A t \in TaskIds :
         task[t].pc \in {"frag_cache", "frag_send"}
            => task[t].unit.boxes = << "moof", "mdat" >>
    /\ \A c \in DOMAIN recent_segments :
         \A i \in DOMAIN recent_segments[c] :
            recent_segments[c][i].boxes = << "moof", "mdat" >>

\* ------------------------------------------------------------ large-box runs

\* The size of a box that is valid (at most 50 MiB) and does not fit the
\* pending buffer's cap together with one more read.
BigBox == PendingCap + ReadBuf

\* Valid boxes only: a moov, a keyframed moof, an mdat of the least size and an
\* mdat of BigBox bytes.
BigAlphabet ==
    {Box("moov", HeaderLen, FALSE, 0), Box("moof", 2 * HeaderLen, TRUE, 1),
     Box("mdat", HeaderLen, FALSE, 0), Box("mdat", BigBox, FALSE, 0)}

\* What a read may return in these runs, besides the rest of a box: the full
\* buffer or half of it.
BigReads == {ReadBuf, ReadBuf \div 2}

NextBig ==
    \E t \in TaskIds :
        Parsing(t, Streams(BigAlphabet, MaxBigBoxes), BigReads)

SpecBig == InitParser /\ [][NextBig]_vars

RECURSIVE ParseAll(_)
\* What the while loop makes of pending until it ends, counting nothing and
\* publishing nothing: the units classified.
ParseAll(p) ==
    IF ~CanParse(p) THEN p.outs
    ELSE LET r == Parse(p, \E i \in DOMAIN p.outs : p.outs[i].kind = "init")
         IN IF r.act = "panic" THEN r.px.outs ELSE ParseAll(r.px)

\* What the parser makes of the stream bs when one read delivers all of it.
OneRead(bs) == ParseAll([NoParser EXCEPT !.stream = bs, !.rd = Bytes(bs)])

\* C19: for a concatenation of valid boxes, when all its bytes have been read
\* and parsed, the units classified (init publication, fragments, dropped
\* boxes) are those of the stream delivered in one read, whatever the split
\* into reads was.
C19_ChunkingInvariance ==
    \A t \in TaskIds :
        (/\ task[t].pc = "read"
         /\ task[t].px.stream # << >>
         /\ task[t].px.rd = Bytes(task[t].px.stream))
           => task[t].px.outs = OneRead(task[t].px.stream)

\* ------------------------------------------------------- status events

\* C21: whenever an attempt that reached online ends (worker EOF, read error
\* or read timeout), the supervisor emits "offline" for the camera before it
\* emits the following "reconnecting".
C21_OfflineBeforeReconnecting ==
    [][\A t \in TaskIds :
         (/\ task[t].pc = "reconnecting"
          /\ task[t].init_sent
          /\ emitted' = Event("camera-status", task[t].cam,
                              StatusMsg(task[t].attempt), task[t].attempt))
            => task[t].offline]_vars

\* ------------------------------------------------------------ fragment runs

\* Valid boxes only: a moov, an mdat, a moof whose trun declares no sample and
\* a moof whose two trun boxes declare one sample each.
FrameAlphabet ==
    {Box("moov", HeaderLen, FALSE, 0), Box("mdat", HeaderLen, FALSE, 0),
     Moof(2 * HeaderLen, TRUE, << 0 >>), Moof(2 * HeaderLen, TRUE, << 1, 1 >>)}

\* Every split of the stream into reads.
NextFrames ==
    \E t \in TaskIds :
        Parsing(t, Streams(FrameAlphabet, MaxFrameBoxes),
                1..(MaxFrameBoxes * 2 * HeaderLen))

SpecFrames == InitParser /\ [][NextFrames]_vars

\* C22: no sequence of worker output makes the supervisor task terminate:
\* whatever boxes the worker writes, the task stays in its loop.
C22_SupervisorNeverTerminates ==
    \A t \in TaskIds : task[t].pc # "panicked"

\* The sample counts count_samples_in_moof finds in the moof boxes among bs.
MoofCounts(bs) ==
    LET ms == SelectSeq(bs, LAMBDA b : b.type = "moof")
    IN [i \in DOMAIN ms |-> ms[i].samples]

\* C28: the frame counter grows, with each fragment emitted, by the sample
\* count declared by the trun boxes of the fragment's own moof (counted as 1
\* when the declared total is 0), and never by a count taken from a moof of
\* another fragment: a fragment that holds moof boxes adds the count of its
\* last moof or the sum over its moofs, a fragment that holds none adds at
\* most 1.
C28_FramesCountOwnMoof ==
    [][\A t \in TaskIds :
         (task[t].pc = "parse" /\ task'[t].pc = "frag_cache") =>
            LET own == MoofCounts(task[t].px.frag_buf)
                added == task'[t].frames - task[t].frames
            IN IF own = << >>
               THEN added \in {0, 1}
               ELSE added \in {own[Len(own)], SumSeq(own)}]_vars

\* ------------------------------------------------------- scoped cancellation

\* The supervisor tasks of camera c whose health task is live.
LiveHealth(c) == {t \in TaskIds : task[t].cam = c /\ task[t].htask # "none"}

\* C23: whenever an attempt ends (normal return, error, abort of the
\* supervisor) its health task is aborted and its worker killed, so that at
\* most one health task per camera is live whenever a new attempt has
\* started its own.
C23_OneHealthTaskPerCamera ==
    \A c \in Cams : Cardinality(LiveHealth(c)) <= 1

\* ------------------------------------------------------- solo and grid

\* A solo command that keeps only camera c streaming: it aborts the
\* supervisors of the other cameras.
SoloCameraStopsOthers(c) ==
    /\ cmd["ui"].pc = "idle" /\ MayIssue
    /\ ~TasksLocked
    /\ cmd' = [cmd EXCEPT !["ui"] = [Begin("ui", "solo_camera") EXCEPT
                                        !.cams = << c >>]]
    /\ LET others == [d \in (DOMAIN stream_tasks) \ {c} |-> stream_tasks[d]]
       IN /\ task' = AbortAll(task, others)
          /\ stream_tasks' = [d \in (DOMAIN stream_tasks) \cap {c} |-> stream_tasks[d]]
    /\ UNCHANGED << config, disk_config, supVars, emitted, ghostVars >>

\* solo_camera(camera_id): logs, and returns
SoloCamera(c) ==
    /\ cmd["ui"].pc = "idle" /\ MayIssue
    /\ cmd' = [cmd EXCEPT !["ui"] = [Begin("ui", "solo_camera") EXCEPT
                                        !.cams = << c >>]]
    /\ UNCHANGED << config, disk_config, stream_tasks, supVars, task, emitted,
                    ghostVars >>

\* GET /api/grid: emit remote-command {command: "grid", index: None}
ApiGrid ==
    /\ cmd["api"].pc = "idle" /\ MayIssue
    /\ cmd' = [cmd EXCEPT !["api"] = Begin("api", "api_grid")]
    /\ emitted' = Event("remote-command", "", "grid", 0)
    /\ UNCHANGED << config, disk_config, stream_tasks, supVars, task, ghostVars >>

\* GET /api/solo/{idx}: if idx >= 1 emit remote-command {command: "solo",
\* index: Some(idx)} (the event's number is the index), else 400 Bad Request
ApiSolo(idx) ==
    /\ cmd["api"].pc = "idle" /\ MayIssue
    /\ cmd' = [cmd EXCEPT !["api"] = Begin("api", "api_solo")]
    /\ emitted' = IF idx >= 1 THEN Event("remote-command", "", "solo", idx)
                  ELSE emitted
    /\ UNCHANGED << config, disk_config, stream_tasks, supVars, task, ghostVars >>

\* The indexes a remote control asks for.
SoloIndexes == 0..Cardinality(Cams)

NextSolo ==
    \/ StartStreams
    \/ \E c \in Cams : SoloCamera(c)
    \/ ApiGrid
    \/ \E idx \in SoloIndexes : ApiSolo(idx)
    \/ \E t \in TaskIds : Streaming(t, WCaches) \/ DropFuture(t)

SpecSolo == InitEngine /\ [][NextSolo]_vars

\* Handler h takes up and finishes a solo or grid command in this step.
SoloOrGrid(h) ==
    /\ cmd'[h].n = cmd[h].n + 1
    /\ cmd'[h].op \in {"solo_camera", "api_grid", "api_solo"}

\* C24: a solo or grid command (solo_camera, GET /api/solo/{index}, GET
\* /api/grid) leaves the set of supervisor tasks, every task with its worker
\* and every shared cache unchanged: it aborts and starts no supervisor.
C24_SoloKeepsWorkers ==
    [][\A h \in Handlers :
         SoloOrGrid(h) => /\ stream_tasks' = stream_tasks
                          /\ task' = task
                          /\ supVars' = supVars
                          /\ config' = config]_vars

\* C24 witness: solo_camera("a") has returned while two cameras stream: both
\* supervisors are tracked, not aborted, with their workers, and both cameras
\* have a cached init segment.
C24_Witness ==
    /\ cmd["ui"].op = "solo_camera" /\ cmd["ui"].cams = << "a" >>
    /\ DOMAIN stream_tasks = {"a", "b"}
    /\ \A c \in {"a", "b"} :
          /\ task[stream_tasks[c]].worker
          /\ ~task[stream_tasks[c]].aborted
          /\ Has(init_segments, c)

\* ------------------------------------------------------- early clients

InitEarly == InitSupervisors(<< "a" >>)

WEarly == WorkerProfile(StreamAttempts, EarlyUnits, BOOLEAN, TRUE)

\* A client asks for a camera's stream before the camera has a topic.
HttpSubscribeFirst(s) ==
    \E c \in Cams : ~Has(frame_broadcasters, c) /\ HttpSubscribe(s, c)

NextEarly ==
    \/ \E t \in TaskIds : Supervisor(t, WEarly)
    \/ \E s \in SubIds : HttpSubscribeFirst(s) \/ HttpStreamAfter(s)

SpecEarly == InitEarly /\ [][NextEarly]_vars

\* What handler s has written from its Receiver.
LiveWritten(s) ==
    SubSeq(sub[s].written, sub[s].from_cache + 1, Len(sub[s].written))

\* C25: a client that asked for the stream before the camera had a topic
\* holds a Receiver of the topic the supervisor publishes to: as long as the
\* client is connected every unit the supervisor has sent, the init segment
\* first, is in that channel in production order, and what the client has
\* written from its Receiver is these units from the first on, none skipped.
C25_EarlyClientGetsEveryUnit ==
    \A s \in SubIds :
        sub[s].pc \notin {"idle", "closed"} =>
            LET c == sub[s].cam
                ch == frame_broadcasters[c]
                live == LiveWritten(s)
            IN /\ ch.rx >= 1
               /\ ch.tail = Sent(c)
               /\ Len(ch.buf) = ch.tail
               /\ \A i \in DOMAIN ch.buf : ch.buf[i].id = i
               /\ live = SubSeq(ch.buf, 1, Len(live))
               /\ sub[s].rx_next = Len(live) + (IF sub[s].pc = "write_live" THEN 1 ELSE 0)

\* C25 witness: the client subscribed first and has written, from the live
\* channel alone, the init segment and the two fragments that followed.
C25_Witness ==
    \E s \in SubIds :
        /\ sub[s].pc = "live"
        /\ sub[s].from_cache = 0
        /\ Len(sub[s].written) = 3
        /\ sub[s].written[1].kind = "init"
        /\ sub[s].written[2].kind = "frag"
        /\ sub[s].written[3].kind = "frag"

\* ------------------------------------------------------- ring cap

\* C27: each camera's recent-fragment ring holds at most 120 entries, and the
\* cap removes entries from the front: the ring holds consecutive fragments
\* in production order, the newest cached fragment last.
C27_RingCappedFromFront ==
    \A c \in DOMAIN recent_segments :
        LET q == recent_segments[c]
            caching == \E t \in TaskIds : task[t].cam = c /\ task[t].pc = "frag_cache"
        IN /\ Len(q) <= RecentCap
           /\ \A i \in 1..(Len(q) - 1) : q[i + 1].id = q[i].id + 1
           /\ q # << >> => q[Len(q)].id = unit_seq[c] - (IF caching THEN 1 ELSE 0)

\* C27 witness: the ring is full and its oldest entries have been removed: it
\* starts behind the attempt's first fragment.
C27_Witness ==
    \E c \in DOMAIN recent_segments :
        /\ Len(recent_segments[c]) = RecentCap
        /\ recent_segments[c][1].id > 2
        /\ recent_segments[c][RecentCap].id = unit_seq[c]

\* ------------------------------------------------------- recovery runs

\* A moov, a keyframed moof, an mdat of the least size, an mdat of BigBox
\* bytes, and eight bytes with a size field below 8 and above 50 MiB.
RecoverAlphabet ==
    {Box("moov", HeaderLen, FALSE, 0),
     Box("moof", 2 * HeaderLen, TRUE, 1), Box("mdat", HeaderLen, FALSE, 0),
     Box("mdat", BigBox, FALSE, 0), BadBox, HugeBox}

NextRecover ==
    \E t \in TaskIds :
        Parsing(t, Streams(RecoverAlphabet, MaxBigBoxes), BigReads)

SpecRecover == InitParser /\ [][NextRecover]_vars

\* Task t takes the step that rejects a box size, or the step that finds
\* pending above its cap.
Recovers(t) ==
    /\ task[t].pc = "parse"
    /\ task'[t] # task[t]
    /\ IF CanParse(task[t].px)
       THEN InvalidSize(BoxAt(task[t].px.stream, task[t].px.lo))
       ELSE task[t].px.rd - task[t].px.lo > PendingCap

\* C29: a box header with size < 8 or size > 50 MiB, or a pending buffer
\* above 5 MiB, is recovered in place: the step clears the pending buffer and
\* the partial fragment buffer, leaves the task in its read loop with the
\* same worker and attempt, and changes no reconnect counter, no health
\* entry and no cache, and emits no event.
C29_RecoveredInPlace ==
    [][\A t \in TaskIds :
         Recovers(t) =>
            /\ task'[t].px.lo = task'[t].px.rd
            /\ task'[t].px.frag_buf = << >>
            /\ task'[t].pc \in {"parse", "read"}
            /\ task'[t].worker /\ task'[t].attempt = task[t].attempt
            /\ task'[t].px.stream = task[t].px.stream
            /\ task'[t].px.rd = task[t].px.rd
            /\ supVars' = supVars
            /\ emitted' = emitted]_vars

\* C29 witness: the worker wrote a moof, eight bytes with an invalid size and,
\* later, an mdat: the moof was dropped with the invalid bytes, the mdat was
\* parsed by the same attempt, and the last event is still "connecting".
C29_Witness ==
    \E t \in TaskIds :
        /\ task[t].pc = "read"
        /\ Types(task[t].px.stream) = << "moof", "huge", "mdat" >>
        /\ task[t].px.outs = << [kind |-> "frag", boxes |-> << "mdat" >>] >>
        /\ task[t].worker
        /\ reconnect_attempts[task[t].cam] = 1
        /\ emitted.status = "connecting"

\* ------------------------------------------------------- restart runs

InitRestart == InitSupervisors(<< "a" >>)

WRestart == WorkerProfile(RestartAttempts, RestartUnits, {TRUE}, TRUE)

\* One camera whose attempts end and follow one another, with the health
\* tasks of its attempts.
NextRestart == \E t \in TaskIds : Supervisor(t, WRestart) \/ HealthTask(t)

SpecRestart == InitRestart /\ [][NextRestart]_vars

\* Task t is between the end of an attempt (past the removal of the health
\* entry, where the attempt has one) and the new attempt's own insert.
BetweenAttempts(t) ==
    \/ task[t].pc \in {"ok_offline", "ok_reset", "after_err", "reconnecting",
                       "sleep"}
    \/ task[t].attempt >= 2
       /\ task[t].pc \in {"connecting", "mkchan", "spawn", "health_init"}

\* C30: from the end of an attempt until the new attempt of the same camera
\* inserts its own entry, the camera has no stream_health entry, also when
\* the ended attempt's health task ticks while the entry is removed.
C30_HealthAbsentBetweenAttempts ==
    \A t \in TaskIds :
        BetweenAttempts(t) => ~Has(stream_health, task[t].cam)

\* ---------------------------------------------------- poisoned-lock runs

SharedMaps == {"stream_tasks", "reconnect_attempts", "stream_health",
               "frame_broadcasters", "init_segments", "recent_segments"}

\* A thread panicked while it held the guard of map m: every later lock() of
\* that Mutex returns Err(PoisonError).  No line of the program clears it.
Poison(m) ==
    /\ m \notin poisoned
    /\ Cardinality(poisoned) < MaxPoisoned
    /\ poisoned' = poisoned \cup {m}
    /\ UNCHANGED << engineVars, supVars, task, emitted, streak, fails, stopped,
                    locks >>

\* start_streams: Err(_) => { error!("stream_tasks mutex poisoned, cannot
\* start streams"); return; }
StartPoisoned ==
    /\ cmd["ui"].op = "start_streams" /\ cmd["ui"].pc = "lock_tasks"
    /\ ~TasksLocked /\ "stream_tasks" \in poisoned
    /\ cmd' = [cmd EXCEPT !["ui"] = Return("ui")]
    /\ UNCHANGED << config, disk_config, stream_tasks, supVars, task, emitted,
                    ghostVars >>

\* stop_streams: Err(_) => { error!("stream_tasks mutex poisoned in
\* stop_streams"); return; }
StopPoisoned ==
    /\ cmd["ui"].pc = "idle" /\ MayIssue
    /\ ~TasksLocked /\ "stream_tasks" \in poisoned
    /\ cmd' = [cmd EXCEPT !["ui"] = [Return("ui") EXCEPT !.n = @ + 1]]
    /\ UNCHANGED << config, disk_config, stream_tasks, supVars, task, emitted,
                    ghostVars >>

\* let mut broadcasters = state.frame_broadcasters.lock().unwrap(): the unwrap
\* of Err panics, and the panic ends the supervisor task.
TryBroadcasterPanics(t) ==
    /\ task[t].pc = "mkchan" /\ "frame_broadcasters" \in poisoned
    /\ task' = [task EXCEPT ![t] = [DropAttempt(@) EXCEPT !.pc = "panicked"]]
    /\ UNCHANGED << engineVars, supVars, emitted, ghostVars >>

InitPoison == InitWith(<< "a" >>, << >>)

WPoison == WorkerProfile(PoisonAttempts, PoisonUnits, {TRUE}, TRUE)

\* The engine of one camera, started and stopped from the window, where the
\* lock of a shared map becomes poisoned at any moment.
NextPoison ==
    \/ \E m \in SharedMaps : Poison(m)
    \/ StartStreams
    \/ StartPoisoned
    \/ StopStreams
    \/ StopPoisoned
    \/ \E t \in TaskIds :
          \/ Supervisor(t, WPoison)
          \/ TryBroadcasterPanics(t)
          \/ DropFuture(t)

SpecPoison == InitPoison /\ [][NextPoison]_vars

\* Supervisor t leaves the lock site at position pc in this step.
Leaves(t, pc) == task[t].pc = pc /\ task'[t].pc # pc

\* The window's handler leaves the lock site at position pc in this step.
UiLeaves(pc) == cmd["ui"].pc = pc /\ cmd'["ui"].pc # pc

\* The window's handler takes up a stop_streams command in this step, in runs
\* whose window invokes start_streams and stop_streams only.
StopIssued ==
    /\ cmd["ui"].pc = "idle"
    /\ cmd'["ui"].n = cmd["ui"].n + 1
    /\ cmd'["ui"].op # "start_streams"

\* C26: an operation that locks one of the six shared maps performs its
\* update on the map and continues, also when the lock is poisoned: it does
\* not panic, does not skip the update and does not return early.
C26_PoisonRecovered ==
    [][ /\ StopIssued => stream_tasks' = EmptyMap
        /\ UiLeaves("lock_tasks") =>
              DOMAIN stream_tasks' = Range(cmd["ui"].cams)
        /\ UiLeaves("clear_health") => stream_health' = EmptyMap
        /\ UiLeaves("clear_attempts") => reconnect_attempts' = EmptyMap
        /\ UiLeaves("clear_init") => init_segments' = EmptyMap
        /\ UiLeaves("clear_recent") => recent_segments' = EmptyMap
        /\ \A t \in TaskIds :
              LET c == task[t].cam
              IN /\ Leaves(t, "mkchan") =>
                       task'[t].pc = "spawn" /\ Has(frame_broadcasters', c)
                 /\ Leaves(t, "health_init") => Has(stream_health', c)
                 /\ Leaves(t, "init_cache") =>
                       Has(init_segments', c) /\ init_segments'[c] = task[t].unit
                 /\ (Leaves(t, "init_reset") \/ Leaves(t, "ok_reset")) =>
                       Has(reconnect_attempts', c) /\ reconnect_attempts'[c] = 0
                 /\ Leaves(t, "frag_cache") =>
                       /\ Has(recent_segments', c)
                       /\ recent_segments'[c] # << >>
                       /\ recent_segments'[c][Len(recent_segments'[c])] = task[t].unit
                 /\ Leaves(t, "ok_health") => ~Has(stream_health', c)
                 /\ task'[t].pc # "panicked"
      ]_vars

\* ------------------------------------------------- the reconnecting status

\* C31: the "reconnecting" status emitted after attempt n has the form
\* "reconnecting (Nm wait)" exactly when the wait calculate_backoff(n) is 60 s
\* or more, and the form "reconnecting (attempt n)" exactly when it is less.
C31_WaitFormFromSixtySeconds ==
    (emitted.name = "camera-status"
        /\ emitted.status \in {"reconnecting (attempt n)", "reconnecting (Nm wait)"})
    => (emitted.status = "reconnecting (Nm wait)"
            <=> calculate_backoff(emitted.attempt) >= 60)

\* ---------------------------------------------------------- producer rule

\* C32: a fragment emitted while the camera's topic has no subscriber is not
\* placed in the broadcast channel and is in the recent-fragment ring; a
\* client never gets from its Receiver a fragment that was passed to send
\* before the client subscribed.
C32_NoSendWithoutSubscriber ==
    [][ /\ \A t \in TaskIds :
              LET c == task[t].cam
              IN (task[t].pc = "frag_send" /\ task'[t].pc # "frag_send"
                     /\ frame_broadcasters[c].rx = 0) =>
                    /\ frame_broadcasters'[c] = frame_broadcasters[c]
                    /\ Has(recent_segments', c)
                    /\ \E i \in DOMAIN recent_segments'[c] :
                          recent_segments'[c][i] = task[t].unit
        /\ \A s \in SubIds :
              (sub[s].pc = "live" /\ sub'[s].pc = "write_live"
                  /\ sub'[s].item.kind = "frag") =>
                 sub'[s].item.id > sub[s].joined
      ]_vars

\* C32 witness: a fragment was emitted with no subscriber and left the
\* channel empty; the client that subscribed afterwards has written a later
\* fragment from its Receiver.
C32_Witness ==
    \E s \in SubIds :
        /\ sub[s].joined >= 2
        /\ sub[s].pc = "live"
        /\ LiveWritten(s) # << >>
        /\ LiveWritten(s)[1].kind = "frag"
        /\ frame_broadcasters[sub[s].cam].tail = Len(LiveWritten(s))

\* ------------------------------------------------------ keyframe detection

\* (flags >> 16) & 1 == 0: sample_is_non_sync_sample is not set
is_sync_sample(flags) == (flags \div 2 ^ 16) % 2 = 0

\* A tfhd or trun box inside a traf.  has says that the box carries the flags
\* field the parser looks for (tfhd: default_sample_flags, flag 0x20; trun:
\* first_sample_flags, flag 0x04) within its size; flags is that field.
TrafChildren ==
    {c \in [type : {"tfhd", "trun"}, has : BOOLEAN, flags : {0, 2 ^ 16}] :
        ~c.has => c.flags = 0}

RECURSIVE ScanTraf(_, _)
\* The inner while loop over the children cs of one traf, default_flags being
\* df (<< >> for None): the result returned at the first trun, "none" when
\* the traf ends without one.
ScanTraf(cs, df) ==
    IF cs = << >> THEN "none"
    ELSE LET c == Head(cs)
         IN IF c.type = "trun"
            THEN IF c.has THEN (IF is_sync_sample(c.flags) THEN "key" ELSE "delta")
                 ELSE IF df # << >>
                      THEN (IF is_sync_sample(df[1]) THEN "key" ELSE "delta")
                      ELSE "key"
            ELSE ScanTraf(Tail(cs), IF c.has THEN << c.flags >> ELSE df)

RECURSIVE is_keyframe_moof_data(_)
\* is_keyframe_fragment(moof_data) of a moof whose traf boxes are trafs: the
\* outer while loop; false when no traf holds a trun.
is_keyframe_moof_data(trafs) ==
    IF trafs = << >> THEN FALSE
    ELSE LET r == ScanTraf(Head(trafs), << >>)
         IN IF r = "none" THEN is_keyframe_moof_data(Tail(trafs)) ELSE r = "key"

\* A moof box with the traf boxes trafs, which declares one sample.
MoofOf(trafs) ==
    [type |-> "moof", size |-> 2 * HeaderLen, len |-> 2 * HeaderLen,
     key |-> is_keyframe_moof_data(trafs), samples |-> 1, trafs |-> trafs]

\* A moof without a traf, and the moofs with one traf of up to MaxTrafChildren
\* tfhd and trun boxes in any order.
MoofInputs ==
    {<< >>} \cup {<< cs >> : cs \in Streams(TrafChildren, MaxTrafChildren)}

\* The worker writes one fragment, behind a moov or without one.
KeyStreams ==
    UNION {{<< MoofOf(m), Box("mdat", HeaderLen, FALSE, 0) >>,
            << Box("moov", HeaderLen, FALSE, 0), MoofOf(m),
               Box("mdat", HeaderLen, FALSE, 0) >>} : m \in MoofInputs}

NextKeyframe ==
    \E t \in TaskIds : Parsing(t, KeyStreams, {HeaderLen})

SpecKeyframe == InitParser /\ [][NextKeyframe]_vars

\* The rule of precedence: first-sample-flags of the trun, else
\* default_sample_flags of the traf's tfhd wherever it stands, else keyframe;
\* no trun, no keyframe.
KeyframeByPrecedence(trafs) ==
    /\ trafs # << >>
    /\ LET cs == trafs[1]
           truns == {i \in DOMAIN cs : cs[i].type = "trun"}
           tfhds == {i \in DOMAIN cs : cs[i].type = "tfhd" /\ cs[i].has}
       IN /\ truns # {}
          /\ LET tr == cs[CHOOSE i \in truns : \A j \in truns : i <= j]
             IN IF tr.has THEN is_sync_sample(tr.flags)
                ELSE IF tfhds # {}
                     THEN is_sync_sample(cs[CHOOSE i \in tfhds : TRUE].flags)
                     ELSE TRUE

\* C33: the keyframe flag of a fragment is decided by strict precedence:
\* the trun's first-sample-flags (bit 16 clear), else the tfhd's
\* default_sample_flags (bit 16 clear), else keyframe; the same whether the
\* tfhd stands before or behind the trun; not a keyframe without traf or trun.
C33_KeyframePrecedence ==
    [][\A t \in TaskIds :
          (task[t].pc = "parse" /\ task'[t].pc = "frag_cache") =>
             LET m == BoxAt(task[t].px.frag_buf, task[t].px.moof_start)
             IN m.type = "moof" => task'[t].unit.key = KeyframeByPrecedence(m.trafs)
      ]_vars

\* ------------------------------------------------- the slice at moof_start

\* C34: whenever the parser is about to handle an mdat box, moof_start is at
\* most the length the fragment buffer has with that mdat appended, so the
\* slice fragment_buffer[moof_start..] is within bounds, for every sequence
\* of boxes and resets.
C34_MoofStartWithinBuffer ==
    \A t \in TaskIds :
        LET p == task[t].px
            b == BoxAt(p.stream, p.lo)
        IN (task[t].pc = "parse" /\ CanParse(p) /\ ~InvalidSize(b)
               /\ b.type = "mdat") =>
              p.moof_start <= Bytes(p.frag_buf) + b.len

\* ------------------------------------------------------- tracked tasks

\* The future of supervisor task t exists and no abort has been asked of it.
Running(t) == task[t].pc \notin {"none", "dead", "panicked"} /\ ~task[t].aborted

\* C35: every running supervisor task is the value of an entry of
\* stream_tasks, so that the next drain aborts it, under every interleaving
\* of start_streams with api_reload.
C35_RunningTasksAreTracked ==
    \A t \in TaskIds :
        Running(t) => \E c \in DOMAIN stream_tasks : stream_tasks[c] = t

\* ------------------------------------------------ offline is the last word

\* C36: once stop_streams has emitted "offline" for a camera, the supervisor
\* of that camera which this stop_streams aborted emits no further event,
\* under every interleaving of the abort with the supervisor's steps.
C36_OfflineIsLastStatus ==
    [][\A t \in TaskIds :
          (cmd["ui"].op = "stop_streams"
              /\ t \in cmd["ui"].killed
              /\ task[t].cam \in Range(cmd["ui"].offl)
              /\ task'[t].pc # task[t].pc)
          => emitted' = emitted
      ]_vars

\* ------------------------------------------------------------ lock order

Lock(m) == << "lock", m >>

Unlock(m) == << "unlock", m >>

Await == << "await", "" >>

\* start_streams: config is locked for the clone only; stream_tasks is held
\* to the return.
start_streams_locks ==
    << Lock("config"), Unlock("config"),
       Lock("stream_tasks"), Unlock("stream_tasks") >>

\* A stop_streams that clears stream_health before it locks stream_tasks.
stop_streams_locks_health_first ==
    << Lock("stream_health"), Lock("stream_tasks"), Unlock("stream_health"),
       Lock("reconnect_attempts"), Unlock("reconnect_attempts"),
       Lock("init_segments"), Unlock("init_segments"),
       Lock("recent_segments"), Unlock("recent_segments"),
       Unlock("stream_tasks") >>

\* stop_streams: stream_tasks is held to drop(tasks); inside, each
\* `if let Ok(..) = X.lock() { .. }` holds X for its block.
stop_streams_locks ==
    << Lock("stream_tasks"),
       Lock("stream_health"), Unlock("stream_health"),
       Lock("reconnect_attempts"), Unlock("reconnect_attempts"),
       Lock("init_segments"), Unlock("init_segments"),
       Lock("recent_segments"), Unlock("recent_segments"),
       Unlock("stream_tasks") >>

\* api_reload: tasks, health and attempts are locked in this order and
\* dropped as health, attempts, tasks; then config; then stream_tasks again.
api_reload_locks ==
    << Lock("stream_tasks"), Lock("stream_health"), Lock("reconnect_attempts"),
       Unlock("stream_health"), Unlock("reconnect_attempts"),
       Unlock("stream_tasks"),
       Lock("config"), Unlock("config"),
       Lock("stream_tasks"), Unlock("stream_tasks") >>

\* get_stream_health: state.stream_health.lock()?.clone()
get_stream_health_locks == << Lock("stream_health"), Unlock("stream_health") >>

\* save_config, get_config and GET /api/status: config only
config_locks == << Lock("config"), Unlock("config") >>

\* One pass of the loop of stream_camera with a worker that starts, writes an
\* init segment and a fragment and exits: the counter, the broadcaster, the
\* health entry, the sender (process_fmp4_stream), read().await, the init
\* cache, the counter, the ring, read().await, the health entry, the counter,
\* sleep().await.
stream_camera_locks ==
    << Lock("reconnect_attempts"), Unlock("reconnect_attempts"),
       Lock("frame_broadcasters"), Unlock("frame_broadcasters"),
       Lock("stream_health"), Unlock("stream_health"),
       Lock("frame_broadcasters"), Unlock("frame_broadcasters"),
       Await,
       Lock("init_segments"), Unlock("init_segments"),
       Lock("reconnect_attempts"), Unlock("reconnect_attempts"),
       Lock("recent_segments"), Unlock("recent_segments"),
       Await,
       Lock("stream_health"), Unlock("stream_health"),
       Lock("reconnect_attempts"), Unlock("reconnect_attempts"),
       Await >>

\* The health task: interval.tick().await, then the insert.
health_task_locks == << Await, Lock("stream_health"), Unlock("stream_health") >>

\* The handler of GET /camera/<id>/stream: subscribe, write the headers, the
\* cached init segment, the cached fragments, then rx.recv().await.
http_stream_locks ==
    << Lock("frame_broadcasters"), Unlock("frame_broadcasters"), Await,
       Lock("init_segments"), Unlock("init_segments"), Await,
       Lock("recent_segments"), Unlock("recent_segments"), Await,
       Await >>

\* The lock sequence of operation op.
LockSeq(op) ==
    CASE op = "start_streams" -> start_streams_locks
      [] op = "stop_streams" -> stop_streams_locks
      [] op = "api_reload" -> api_reload_locks
      [] op = "get_stream_health" -> get_stream_health_locks
      [] op \in {"save_config", "api_status"} -> config_locks
      [] op = "stream_camera" -> stream_camera_locks
      [] op = "health_task" -> health_task_locks
      [] op = "http_stream" -> http_stream_locks

\* The operations that run on each thread.
OpsOf(th) ==
    CASE th = "ui" -> {"start_streams", "stop_streams", "get_stream_health",
                       "save_config"}
      [] th = "api" -> {"api_reload", "api_status"}
      [] th = "sup" -> {"stream_camera"}
      [] th = "health" -> {"health_task"}
      [] th = "http" -> {"http_stream"}

\* The step thread th is at, << "", "" >> outside an operation.
StepOf(th) ==
    IF locks.at[th].op = "" THEN << "", "" >>
    ELSE LockSeq(locks.at[th].op)[locks.at[th].i]

HeldBy(th) == {m \in Mutexes : locks.owner[m] = th}

\* Thread th is past its step: at the next one, or out of the operation.
Advance(th) ==
    IF locks.at[th].i = Len(LockSeq(locks.at[th].op))
    THEN [op |-> "", i |-> 0]
    ELSE [locks.at[th] EXCEPT !.i = @ + 1]

lockFrame == << engineVars, supVars, task, emitted, streak, fails, stopped,
                poisoned >>

\* Thread th takes up operation op.
LockBegin(th, op) ==
    /\ locks.at[th].op = ""
    /\ locks' = [locks EXCEPT !.at[th] = [op |-> op, i |-> 1]]
    /\ UNCHANGED lockFrame

\* Mutex::lock returns: the Mutex was free.  A thread that locks a Mutex it
\* holds, or one another thread holds, stays where it is.
LockAcquire(th) ==
    /\ StepOf(th)[1] = "lock"
    /\ locks.owner[StepOf(th)[2]] = ""
    /\ locks' = [locks EXCEPT
                   !.owner[StepOf(th)[2]] = th,
                   !.at[th] = Advance(th),
                   !.order = @ \cup {<< a, StepOf(th)[2] >> : a \in HeldBy(th)}]
    /\ UNCHANGED lockFrame

\* The guard is dropped.
LockRelease(th) ==
    /\ StepOf(th)[1] = "unlock"
    /\ locks' = [locks EXCEPT !.owner[StepOf(th)[2]] = "",
                              !.at[th] = Advance(th)]
    /\ UNCHANGED lockFrame

\* The task yields at an await and is polled again.
LockAwait(th) ==
    /\ StepOf(th)[1] = "await"
    /\ locks' = [locks EXCEPT !.at[th] = Advance(th)]
    /\ UNCHANGED lockFrame

NextLocks ==
    \E th \in Threads :
        \/ \E op \in OpsOf(th) : LockBegin(th, op)
        \/ LockAcquire(th)
        \/ LockRelease(th)
        \/ LockAwait(th)

InitLocks == InitWith(<< "a" >>, << >>)

SpecLocks == InitLocks /\ [][NextLocks]_vars

\* Thread th waits for a Mutex that is held.
Blocked(th) == StepOf(th)[1] = "lock" /\ locks.owner[StepOf(th)[2]] # ""

\* C37: the operations never deadlock on the Mutexes: no set of threads wait
\* for Mutexes held inside the set, no two Mutexes are ever locked one inside
\* the other in both orders, and no thread is at an await with a Mutex held.
C37_NoDeadlockOnLocks ==
    /\ \A S \in SUBSET Threads :
          S # {} => \E th \in S :
                       ~Blocked(th) \/ locks.owner[StepOf(th)[2]] \notin S
    /\ \A a, b \in Mutexes : << a, b >> \in locks.order => << b, a >> \notin locks.order
    /\ \A th \in Threads : StepOf(th)[1] = "await" => HeldBy(th) = {}

\* C37 witness: api_reload holds stream_tasks, stream_health and
\* reconnect_attempts at once while stop_streams waits for stream_tasks, the
\* supervisor for reconnect_attempts and the health task for stream_health.
C37_Witness ==
    /\ HeldBy("api") = {"stream_tasks", "stream_health", "reconnect_attempts"}
    /\ locks.at["ui"].op = "stop_streams" /\ Blocked("ui")
    /\ Blocked("sup") /\ StepOf("sup")[2] = "reconnect_attempts"
    /\ Blocked("health")
    /\ << "stream_tasks", "recent_segments" >> \in locks.order

\* ------------------------------------------- the attempt number of a pass

\* Task t's attempt went online and then ended in an error.
FailedAfterOnline(t) == task[t].init_sent /\ task[t].err # ""

\* C38: after an attempt that went online, which set the counter to 0, and
\* then failed, the supervisor decides on stream-error and on the wait with
\* the attempt number n it read when it entered the attempt: stream-error is
\* emitted iff n >= 3, the wait is calculate_backoff(n), and the attempt that
\* follows is numbered 1.
C38_AttemptNumberIsReadOnce ==
    [][\A t \in TaskIds :
          LET n == task[t].attempt
              c == task[t].cam
          IN FailedAfterOnline(t) =>
                /\ (task[t].pc = "after_err" /\ task'[t].pc # "after_err") =>
                      IF n >= ErrorThreshold
                      THEN emitted' = Event("stream-error", c, task[t].err, n)
                      ELSE emitted' = emitted
                /\ (task[t].pc = "reconnecting" /\ task'[t].pc # "reconnecting") =>
                      /\ task'[t].backoff = calculate_backoff(n)
                      /\ emitted'.attempt = n
                /\ (task[t].pc = "sleep" /\ task'[t].pc = "connecting") =>
                      task'[t].attempt = 1
      ]_vars

\* C38 witness: the third attempt went online, its counter is 0, it failed,
\* and the supervisor sleeps the 4 s of a third attempt.
C38_Witness ==
    \E t \in TaskIds :
        /\ FailedAfterOnline(t)
        /\ task[t].pc = "sleep"
        /\ task[t].attempt = 3
        /\ reconnect_attempts[task[t].cam] = 0
        /\ task[t].backoff = 4

\* ------------------------------------------------------------ topic runs

\* The application after the window's first start_streams: camera "a" has its
\* supervisor, spawned and not yet polled, and the window's handler has served
\* one command.
InitTopic ==
    /\ config = << "a" >>
    /\ disk_config = << "a" >>
    /\ stream_tasks = [c \in {"a"} |-> 1]
    /\ cmd = [h \in Handlers |-> IF h = "ui" THEN [NoCmd EXCEPT !.n = 1] ELSE NoCmd]
    /\ reconnect_attempts = EmptyMap
    /\ stream_health = EmptyMap
    /\ frame_broadcasters = EmptyMap
    /\ init_segments = EmptyMap
    /\ recent_segments = EmptyMap
    /\ task = [t \in TaskIds |-> IF t = 1 THEN NewTask("a") ELSE NoTask]
    /\ sub = [s \in SubIds |-> NoSub]
    /\ unit_seq = [c \in Cams |-> 0]
    /\ emitted = NoEvent
    /\ streak = [t \in TaskIds |-> 0]
    /\ fails = [t \in TaskIds |-> 0]
    /\ stopped = FALSE
    /\ poisoned = {}
    /\ locks = NoLocks

WTopic == WorkerProfile(TopicAttempts, TopicUnits, {TRUE}, TRUE)

\* One camera that is stopped, started and reloaded while its supervisors
\* stream, lose their worker and restart, and a client that asks for its
\* stream and whose socket takes every write.
NextTopic ==
    \/ StartStreams
    \/ StopStreams
    \/ ApiReload
    \/ \E t \in TaskIds :
          \/ Streaming(t, WTopic)
          \/ ReadError(t)
          \/ SupOnErr(t)
          \/ SupEmitReconnecting(t)
          \/ DropFuture(t)
    \/ \E s \in SubIds :
          \/ \E c \in Cams : HttpSubscribe(s, c)
          \/ HttpWriteHeaders(s)
          \/ HttpSnapshotInit(s)
          \/ HttpWriteInit(s)
          \/ HttpSnapshotRecent(s)
          \/ HttpWriteCached(s)
          \/ HttpRecv(s)
          \/ HttpWriteLive(s)

SpecTopic == InitTopic /\ [][NextTopic]_vars

\* The client of handler s holds a Receiver of its camera's topic.
Subscribed(s) == sub[s].pc \notin {"idle", "closed"}

\* Camera c's topic is in the map after the step, and it is the channel it
\* was: no position is lost and at most one value is sent.
TopicKept(c) ==
    /\ Has(frame_broadcasters', c)
    /\ frame_broadcasters'[c].tail \in {frame_broadcasters[c].tail,
                                        frame_broadcasters[c].tail + 1}
    /\ \/ frame_broadcasters'[c].buf = frame_broadcasters[c].buf
       \/ \E u \in {task[t].unit : t \in TaskIds} :
             frame_broadcasters'[c].buf =
                LastN(Append(frame_broadcasters[c].buf, u), ChannelCapacity)
    /\ frame_broadcasters'[c].rx >=
          Cardinality({s \in SubIds : Subscribed(s)' /\ sub'[s].cam = c})

\* C39: a camera's broadcast topic, once created, is never removed nor
\* replaced, whatever attempt restarts and whichever of stop_streams,
\* start_streams and api_reload runs; so a subscribed client is never told
\* that the channel is closed, stays subscribed, and once it has caught up
\* has written from its Receiver every unit that any attempt has sent since
\* it subscribed.
C39_TopicNeverReplaced ==
    /\ [][\A c \in Cams : Has(frame_broadcasters, c) => TopicKept(c)]_vars
    /\ [](\A s \in SubIds :
            /\ sub[s].end # "closed channel"
            /\ Subscribed(s) =>
                  /\ Has(frame_broadcasters, sub[s].cam)
                  /\ frame_broadcasters[sub[s].cam].rx >= 1
                  /\ sub[s].rx_next <= frame_broadcasters[sub[s].cam].tail
                  /\ sub[s].pc = "live"
                     /\ sub[s].rx_next = frame_broadcasters[sub[s].cam].tail
                     => Len(LiveWritten(s)) = Sent(sub[s].cam) - sub[s].joined)

\* C39 witness: the camera's first supervisor has been stopped and dropped,
\* and the client has written from its Receiver the init segment and the
\* fragment of the supervisor that was started after it.
C39_Witness ==
    \E s \in SubIds, t \in TaskIds :
        /\ task[t].pc = "dead"
        /\ sub[s].pc = "live"
        /\ sub[s].from_cache = 0
        /\ Len(sub[s].written) = 2
        /\ sub[s].written[1].kind = "init"
        /\ sub[s].written[2].kind = "frag"

\* ------------------------------------------------------- pending buffer cap

\* The offsets of stream bs at which a box starts or the stream ends.
BoxBounds(bs) == {StartOf(bs, i) : i \in 1..Len(bs)} \cup {Bytes(bs)}

\* C40: in a stream of boxes of valid sizes, pending always starts where a
\* box starts (the bytes of a box that is still arriving are never thrown
\* away, by the 5 MiB cap or otherwise), and when the while loop has ended
\* every box that has arrived whole has been consumed.
C40_ValidBoxIsConsumedWhole ==
    \A t \in TaskIds :
        LET p == task[t].px IN
        /\ p.lo \in BoxBounds(p.stream)
        /\ task[t].pc = "read" =>
              \A i \in 1..Len(p.stream) :
                  StartOf(p.stream, i) + p.stream[i].len <= p.rd
                     => StartOf(p.stream, i) + p.stream[i].len <= p.lo

====
